---- MODULE Spec2Model ----
(***************************************************************************)
(* PlantUML_RUST: the sequence-diagram parser driver (process_rule), the   *)
(* sequence layout engine (SequenceLayoutEngine::layout) and the state     *)
(* layout engine (StateLayoutEngine::layout) as state machines.  While the *)
(* state engine runs, `metrics` holds the locals of its layout().          *)
(*                                                                         *)
(* Coordinates are f64 in the source.  Every coordinate of the model is an *)
(* integer number of hundredths of a unit (Px(1) = 100), which represents  *)
(* exactly every value the engines compute from the inputs used here       *)
(* (halves, quarters, 0.2 / 0.3 / 0.7 / 0.8 multiples).                    *)
(***************************************************************************)
EXTENDS Integers, Sequences, FiniteSets, TLC

VARIABLES
    mode,          \* which entry point this behaviour runs: "seq", "parse", "state"
    pc,            \* position inside the entry point
    diagram,       \* SequenceDiagram given to SequenceLayoutEngine::layout
    idx,           \* index of the next element of diagram.elements
    metrics,       \* DiagramMetrics
    elements,      \* Vec<LayoutElement> built by layout
    box_elements,  \* box rectangles kept aside until step 10
    result,        \* LayoutResult
    source,        \* the statements parse_sequence has handed to process_rule so far
    fragment_stack,             \* Vec<FragmentStackEntry>
    current_section_elements,   \* Vec<SequenceElement>
    current_box                 \* Option<BoxState>

vars == <<mode, pc, diagram, idx, metrics, elements, box_elements, result,
          source, fragment_stack, current_section_elements, current_box>>

layoutvars == <<idx, metrics, elements, box_elements, result>>
parsevars == <<source, fragment_stack, current_section_elements, current_box>>

-----------------------------------------------------------------------------
(* Generic helpers *)

Px(n) == n * 100

Max(a, b) == IF a >= b THEN a ELSE b
Min(a, b) == IF a <= b THEN a ELSE b
Abs(a) == IF a < 0 THEN 0 - a ELSE a

None == <<>>
Some(v) == <<v>>
IsSome(o) == o # <<>>

Range(s) == {s[i] : i \in DOMAIN s}

\* the element of a one-element set
TheOne(S) == CHOOSE x \in S : TRUE

RECURSIVE SumSeq(_)
SumSeq(s) == IF s = <<>> THEN 0 ELSE Head(s) + SumSeq(Tail(s))

RECURSIVE Flatten(_)
Flatten(ss) == IF ss = <<>> THEN <<>> ELSE Head(ss) \o Flatten(Tail(ss))

Contains(s, v) == \E i \in DOMAIN s : s[i] = v

\* Vec::iter().position(): index of the first occurrence, 0 when absent
Position(s, v) ==
    IF Contains(s, v) THEN CHOOSE i \in DOMAIN s : s[i] = v /\ \A j \in 1..(i - 1) : s[j] # v
    ELSE 0

Rect(x, y, w, h) == [x |-> x, y |-> y, width |-> w, height |-> h]
Point(x, y) == [x |-> x, y |-> y]

-----------------------------------------------------------------------------
(* SequenceLayoutConfig (sequence/config.rs) *)

Margin == 20
ParticipantHeight == 30
MessageSpacing == 28
LineHeight == 16
FragmentHeaderHeight == 22
FragmentPadding == 10
ActivationWidth == 10
NoteWidth == 120
NoteHeight == 40
DividerHeight == 30
DelayHeight == 30
BoxTitleHeight == 20
CharWidth == 8
ParticipantPadding == 20

\* A label is the pair (number of characters, number of line breaks) of its text
Label(chars, breaks) == [chars |-> chars, breaks |-> breaks]
LabelIsEmpty(l) == l.chars = 0

message_label_width(label) == Px(label.chars * CharWidth)
participant_width_for_name(name) == Px(Len(name) * CharWidth + ParticipantPadding)

-----------------------------------------------------------------------------
(* Sequence AST (plantuml_ast::sequence) *)

Message(f, t, l, act, deact) ==
    [kind |-> "Message", from |-> f, to |-> t, label |-> l,
     activate |-> act, deactivate |-> deact, dashed |-> FALSE]
Section(cond, elems) == [condition |-> cond, elements |-> elems]
Fragment(ft, cond, secs) ==
    [kind |-> "Fragment", fragment_type |-> ft, condition |-> cond, sections |-> secs]
NoteOf(pos, anchors) == [kind |-> "Note", position |-> pos, anchors |-> anchors]
Activation(p, t) == [kind |-> "Activation", participant |-> p, activation_type |-> t]
Divider == [kind |-> "Divider"]
Delay == [kind |-> "Delay"]
Space(h) == [kind |-> "Space", height |-> h]
Autonumber(cmd, start, step) ==
    [kind |-> "Autonumber", cmd |-> cmd, start |-> start, step |-> step]
Return(l) == [kind |-> "Return", label |-> l]
Participant(name, alias, ptype) == [name |-> name, alias |-> alias, ptype |-> ptype]
ParticipantBox(title, ps) == [title |-> title, participants |-> ps]

-----------------------------------------------------------------------------
(* DiagramMetrics (sequence/metrics.rs) *)

Names == {"A", "B", "C", "A_B", "B_C"}

\* DiagramMetrics::new()
NewMetrics ==
    [participants |-> <<>>,
     current_y |-> 0,
     last_message_y |-> 0,
     max_x |-> 0,
     stacks |-> [n \in Names |-> <<>>],
     completed_activations |-> <<>>,
     call_stack |-> <<>>,
     autonumber |-> [enabled |-> FALSE, current |-> 1, step |-> 1]]

\* participants is an insertion-ordered map: a sequence of ParticipantMetrics
HasParticipant(m, name) == \E i \in DOMAIN m.participants : m.participants[i].id = name
GetParticipant(m, name) ==
    m.participants[CHOOSE i \in DOMAIN m.participants : m.participants[i].id = name]

InsertParticipant(m, pm) ==
    IF HasParticipant(m, pm.id)
    THEN [m EXCEPT !.participants =
            [i \in DOMAIN m.participants |->
                IF m.participants[i].id = pm.id THEN pm ELSE m.participants[i]]]
    ELSE [m EXCEPT !.participants = Append(m.participants, pm)]

\* iteration order of the participants map
ParticipantsIter(m) == m.participants

lifeline_x(m, name) ==
    IF HasParticipant(m, name) THEN GetParticipant(m, name).center_x ELSE Px(Margin)

participant_center_x(m, name) ==
    IF HasParticipant(m, name) THEN Some(GetParticipant(m, name).center_x) ELSE None

advance_y(m, dy) == [m EXCEPT !.current_y = m.current_y + dy]

activate_at(m, p, y) ==
    [m EXCEPT !.stacks[p] =
        Append(m.stacks[p], [participant |-> p, level |-> Len(m.stacks[p]) + 1, start_y |-> y])]

activate(m, p) == activate_at(m, p, m.last_message_y)

deactivate(m, p) ==
    IF m.stacks[p] = <<>> THEN m
    ELSE [m EXCEPT
            !.stacks[p] = SubSeq(m.stacks[p], 1, Len(m.stacks[p]) - 1),
            !.completed_activations =
                Append(m.completed_activations,
                       [info |-> m.stacks[p][Len(m.stacks[p])], end_y |-> m.current_y])]

\* open activations of one participant, innermost first
RECURSIVE CloseStack(_, _)
CloseStack(stack, y) ==
    IF stack = <<>> THEN <<>>
    ELSE <<[info |-> stack[Len(stack)], end_y |-> y]>>
         \o CloseStack(SubSeq(stack, 1, Len(stack) - 1), y)

RECURSIVE CloseAll(_, _, _)
CloseAll(m, order, y) ==
    IF order = <<>> THEN <<>>
    ELSE CloseStack(m.stacks[Head(order)], y) \o CloseAll(m, Tail(order), y)

NameOrder == <<"A", "B", "C">>

finalize_activations(m, y) ==
    [m EXCEPT
        !.completed_activations = m.completed_activations \o CloseAll(m, NameOrder, y),
        !.stacks = [n \in Names |-> <<>>]]

\* AutonumberState::next(): the number issued, and the state after it
autonumber_next(m) ==
    [num |-> ToString(m.autonumber.current),
     m |-> [m EXCEPT !.autonumber.current = m.autonumber.current + m.autonumber.step]]

\* LayoutResult::calculate_bounds (lib.rs): tight union of the element bounds
calculate_bounds(elems) ==
    IF elems = <<>> THEN Rect(0, 0, 0, 0)
    ELSE LET S == Range(elems)
             minx == CHOOSE v \in {e.bounds.x : e \in S} : \A e \in S : v <= e.bounds.x
             miny == CHOOSE v \in {e.bounds.y : e \in S} : \A e \in S : v <= e.bounds.y
             maxx == CHOOSE v \in {e.bounds.x + e.bounds.width : e \in S} :
                        \A e \in S : v >= e.bounds.x + e.bounds.width
             maxy == CHOOSE v \in {e.bounds.y + e.bounds.height : e \in S} :
                        \A e \in S : v >= e.bounds.y + e.bounds.height
         IN Rect(minx, miny, maxx - minx, maxy - miny)

-----------------------------------------------------------------------------
(* LayoutElement *)

LayoutElement(id, etype, bounds) ==
    [id |-> id, element_type |-> etype, bounds |-> bounds,
     points |-> <<>>, label |-> None, dashed |-> FALSE, edge_type |-> "",
     autonumber |-> None, sections |-> <<>>, name |-> ""]

EdgeElement(id, bounds, points, label, dashed, edge_type, autonumber) ==
    [id |-> id, element_type |-> "Edge", bounds |-> bounds,
     points |-> points, label |-> label, dashed |-> dashed, edge_type |-> edge_type,
     autonumber |-> autonumber, sections |-> <<>>, name |-> ""]

FragmentElement(id, bounds, sections) ==
    [id |-> id, element_type |-> "Fragment", bounds |-> bounds,
     points |-> <<>>, label |-> None, dashed |-> FALSE, edge_type |-> "",
     autonumber |-> None, sections |-> sections, name |-> ""]

-----------------------------------------------------------------------------
(* SequenceLayoutEngine: participant placement *)

PushAlways(order, name) == Append(order, name)

\* if !order.contains(name) { order.push(name) }
PushNew(order, name) == IF Contains(order, name) THEN order ELSE Append(order, name)

SectionElements(frag) ==
    Flatten([i \in DOMAIN frag.sections |-> frag.sections[i].elements])

\* collect_participants_order / collect_participants_from_element_order
RECURSIVE collect_participants_order(_, _)
collect_participants_order(elems, order) ==
    IF elems = <<>> THEN order
    ELSE LET e == Head(elems)
             o1 == CASE e.kind = "Message" -> PushNew(PushNew(order, e.from), e.to)
                     [] e.kind = "Fragment" ->
                            collect_participants_order(SectionElements(e), order)
                     [] OTHER -> order
         IN collect_participants_order(Tail(elems), o1)

ParticipantKeyByName(p) == p.name

\* alias.as_ref().unwrap_or(&participant.id.name)
ParticipantKey(p) == IF IsSome(p.alias) THEN p.alias[1] ELSE p.name

\* the loop over diagram.participants of layout_participants
RECURSIVE DeclaredOrder(_, _)
DeclaredOrder(ps, order) ==
    IF ps = <<>> THEN order
    ELSE DeclaredOrder(Tail(ps), PushNew(order, ParticipantKey(Head(ps))))

\* participant_names / participant_types: the first declaration of a key wins
FirstDeclared(ps, key) ==
    ps[CHOOSE i \in DOMAIN ps :
          ParticipantKey(ps[i]) = key /\ \A j \in 1..(i - 1) : ParticipantKey(ps[j]) # key]
IsDeclared(ps, key) == \E i \in DOMAIN ps : ParticipantKey(ps[i]) = key
DisplayName(ps, key) == IF IsDeclared(ps, key) THEN FirstDeclared(ps, key).name ELSE key
TypeOf(ps, key) == IF IsDeclared(ps, key) THEN FirstDeclared(ps, key).ptype ELSE "Participant"

\* diagram_has_autonumber: only top-level Start / Resume commands count
diagram_has_autonumber(d) ==
    \E i \in DOMAIN d.elements :
        d.elements[i].kind = "Autonumber" /\ d.elements[i].cmd \in {"Start", "Resume"}

\* collect_messages_by_span / collect_message_span, in walk order
RECURSIVE collect_message_span(_, _, _)
collect_message_span(elems, order, has_autonumber) ==
    IF elems = <<>> THEN <<>>
    ELSE LET e == Head(elems)
             here ==
               CASE e.kind = "Message" ->
                      LET total_width == message_label_width(e.label)
                                         + (IF has_autonumber THEN Px(45) ELSE 0)
                          from_idx == Position(order, e.from)
                          to_idx == Position(order, e.to)
                          start == Min(from_idx, to_idx)
                          end == Max(from_idx, to_idx)
                      IN IF from_idx # 0 /\ to_idx # 0 /\ end - start > 0
                         THEN <<[span |-> end - start, start |-> start, end |-> end,
                                 width |-> total_width]>>
                         ELSE <<>>
                 [] e.kind = "Fragment" ->
                      collect_message_span(SectionElements(e), order, has_autonumber)
                 [] OTHER -> <<>>
         IN here \o collect_message_span(Tail(elems), order, has_autonumber)

\* BTreeMap<span, Vec<..>>: ascending span, collection order inside one span
RECURSIVE BySpan(_, _, _)
BySpan(msgs, span, maxspan) ==
    IF span > maxspan THEN <<>>
    ELSE SelectSeq(msgs, LAMBDA r : r.span = span) \o BySpan(msgs, span + 1, maxspan)

MinSpacing == 50

SumRange(f, lo, hi) == SumSeq([k \in 1..(hi - lo + 1) |-> f[lo + k - 1]])

\* one iteration of the loop over messages_by_span
SpacingStep(st, r, widths) ==
    LET required_length == r.width + Px(20)
    IN IF r.span = 1
       THEN LET half_widths == (widths[r.start] + widths[r.end]) \div 2
                required_spacing == Max(required_length - half_widths, Px(MinSpacing))
            IN [spacing |-> [st.spacing EXCEPT ![r.start] = Max(@, required_spacing)],
                direct |-> st.direct \cup {r.start}]
       ELSE LET current_spacing_sum == SumRange(st.spacing, r.start, r.end - 1)
                total_widths == widths[r.start] \div 2
                                + SumRange(widths, r.start + 1, r.end - 1)
                                + widths[r.end] \div 2
                current_arrow_length == current_spacing_sum + total_widths
            IN [spacing |->
                   IF current_arrow_length < required_length
                   THEN [st.spacing EXCEPT ![r.start] = @ + (required_length - current_arrow_length)]
                   ELSE st.spacing,
                direct |-> st.direct \cup (r.start..(r.end - 1))]

RECURSIVE SpacingLoop(_, _, _)
SpacingLoop(st, msgs, widths) ==
    IF msgs = <<>> THEN st
    ELSE SpacingLoop(SpacingStep(st, Head(msgs), widths), Tail(msgs), widths)

SpacingKey(a, b) == a \o "_" \o b

\* calculate_participant_spacing: the (key, spacing) pairs inserted into spacing_map, in order
calculate_participant_spacing(d, order, widths) ==
    LET n == Len(order)
    IN IF n < 2 THEN <<>>
       ELSE LET msgs == BySpan(collect_message_span(d.elements, order, diagram_has_autonumber(d)),
                               1, n - 1)
                st == SpacingLoop([spacing |-> [i \in 1..(n - 1) |-> Px(MinSpacing)],
                                   direct |-> {}], msgs, widths)
            IN [i \in 1..(n - 1) |->
                  [key |-> SpacingKey(order[i], order[i + 1]),
                   value |-> IF i \in st.direct THEN st.spacing[i]
                             ELSE Min(st.spacing[i], Px(30))]]

\* HashMap::get on spacing_map: a later insert of the same key replaced the earlier one
SpacingGet(entries, key) ==
    IF \E i \in DOMAIN entries : entries[i].key = key
    THEN entries[CHOOSE i \in DOMAIN entries :
                    entries[i].key = key
                    /\ \A j \in (i + 1)..Len(entries) : entries[j].key # key].value
    ELSE Px(15)

\* participant_order of layout_participants: declared first, then from messages
participant_order_messages_first(d) ==
    DeclaredOrder(d.participants, collect_participants_order(d.elements, <<>>))

participant_order(d) ==
    collect_participants_order(d.elements, DeclaredOrder(d.participants, <<>>))

has_box_titles(d) == \E i \in DOMAIN d.boxes : IsSome(d.boxes[i].title)

\* X of the left edge of participant i
RECURSIVE ParticipantX(_, _, _, _)
ParticipantX(i, order, widths, spacing_map) ==
    IF i = 1 THEN Px(Margin)
    ELSE ParticipantX(i - 1, order, widths, spacing_map) + widths[i - 1]
         + SpacingGet(spacing_map, SpacingKey(order[i - 1], order[i]))

create_participant_element(id, display_name, bounds, ptype) ==
    [LayoutElement("participant_" \o id,
                   IF ptype = "Actor" THEN "Ellipse" ELSE "Rectangle", bounds)
        EXCEPT !.name = display_name]

ParticipantMetricsOf(d, i) ==
    LET order == participant_order(d)
        widths == [k \in DOMAIN order |->
                      participant_width_for_name(DisplayName(d.participants, order[k]))]
        spacing_map == calculate_participant_spacing(d, order, widths)
        x == ParticipantX(i, order, widths, spacing_map)
        y == IF has_box_titles(d) THEN Px(Margin + BoxTitleHeight) ELSE Px(Margin)
    IN [id |-> order[i],
        display_name |-> DisplayName(d.participants, order[i]),
        center_x |-> x + widths[i] \div 2,
        width |-> widths[i],
        header_bounds |-> Rect(x, y, widths[i], Px(ParticipantHeight))]

RECURSIVE InsertAll(_, _)
InsertAll(m, pms) ==
    IF pms = <<>> THEN m ELSE InsertAll(InsertParticipant(m, Head(pms)), Tail(pms))

\* layout_participants: the metrics and the header elements it produces
layout_participants(d, m) ==
    LET order == participant_order(d)
        pms == [i \in DOMAIN order |-> ParticipantMetricsOf(d, i)]
        m1 == InsertAll(m, pms)
        last_right == IF order = <<>> THEN Px(Margin)
                      ELSE pms[Len(order)].header_bounds.x + pms[Len(order)].width
    IN [m |-> [m1 EXCEPT !.max_x = last_right],
        out |-> [i \in DOMAIN order |->
                    create_participant_element(pms[i].id, pms[i].display_name,
                                               pms[i].header_bounds,
                                               TypeOf(d.participants, pms[i].id))]]

\* layout_boxes
RECURSIVE layout_boxes(_, _, _)
layout_boxes(d, m, i) ==
    IF i > Len(d.boxes) THEN <<>>
    ELSE LET pbox == d.boxes[i]
             known == {k \in DOMAIN pbox.participants : HasParticipant(m, pbox.participants[k])}
             lefts == {GetParticipant(m, pbox.participants[k]).center_x
                       - GetParticipant(m, pbox.participants[k]).width \div 2 : k \in known}
             rights == {GetParticipant(m, pbox.participants[k]).center_x
                        + GetParticipant(m, pbox.participants[k]).width \div 2 : k \in known}
             min_x == (CHOOSE v \in lefts : \A w \in lefts : v <= w) - Px(10)
             max_x == (CHOOSE v \in rights : \A w \in rights : v >= w) + Px(10)
             here == IF known = {} THEN <<>>
                     ELSE <<[LayoutElement("box_" \o ToString(i - 1), "ParticipantBox",
                                           Rect(min_x, Px(5), max_x - min_x, Px(100)))
                                EXCEPT !.name = IF IsSome(pbox.title) THEN pbox.title[1] ELSE ""]>>
         IN here \o layout_boxes(d, m, i + 1)

-----------------------------------------------------------------------------
(* SequenceLayoutEngine: vertical flow *)

process_autonumber_restarting(cmd, m) ==
    CASE cmd.cmd = "Stop" -> [m EXCEPT !.autonumber.enabled = FALSE]
      [] cmd.cmd \in {"Start", "Resume"} ->
           [m EXCEPT !.autonumber =
               [enabled |-> TRUE,
                current |-> IF IsSome(cmd.start) THEN cmd.start[1] ELSE 1,
                step |-> IF IsSome(cmd.step) THEN cmd.step[1] ELSE 1]]
      [] OTHER -> m

\* process_autonumber
process_autonumber(cmd, m) ==
    CASE cmd.cmd = "Start" ->
           [m EXCEPT !.autonumber =
               [enabled |-> TRUE,
                current |-> IF IsSome(cmd.start) THEN cmd.start[1] ELSE 1,
                step |-> IF IsSome(cmd.step) THEN cmd.step[1] ELSE 1]]
      [] cmd.cmd = "Stop" -> [m EXCEPT !.autonumber.enabled = FALSE]
      [] cmd.cmd = "Resume" ->
           [m EXCEPT !.autonumber =
               [enabled |-> TRUE,
                current |-> IF IsSome(cmd.start) THEN cmd.start[1] ELSE @.current,
                step |-> IF IsSome(cmd.step) THEN cmd.step[1] ELSE @.step]]
      [] OTHER -> m

\* process_activation
process_activation(act, m) ==
    IF act.activation_type = "Activate" THEN activate(m, act.participant)
    ELSE deactivate(m, act.participant)

\* points of the edge synthesized for a Return
ReturnPoints(from_x, to_x, y) == <<Point(from_x, y), Point(to_x, y)>>

PopOldestCall(stack) == [pair |-> stack[1], rest |-> Tail(stack)]

\* metrics.call_stack.pop() on a non-empty stack
PopCall(stack) == [pair |-> stack[Len(stack)], rest |-> SubSeq(stack, 1, Len(stack) - 1)]

layout_return_numbered(ret, m) ==
    IF m.call_stack = <<>> THEN [m |-> m, out |-> <<>>]
    ELSE LET popped == PopCall(m.call_stack)
             caller == popped.pair[1]
             callee == popped.pair[2]
             m1 == [m EXCEPT !.call_stack = popped.rest]
             y == m1.current_y
             m2 == deactivate([m1 EXCEPT !.last_message_y = y], callee)
             numbered == IF m2.autonumber.enabled THEN autonumber_next(m2)
                         ELSE [num |-> "", m |-> m2]
             from_x == lifeline_x(m2, callee)
             to_x == lifeline_x(m2, caller)
             bounds == Rect(Min(from_x, to_x), y - Px(1), Max(Abs(to_x - from_x), Px(1)), Px(2))
             edge == EdgeElement("return_" \o callee \o "_" \o caller, bounds,
                                 ReturnPoints(from_x, to_x, y), ret.label, TRUE,
                                 "Association",
                                 IF m2.autonumber.enabled THEN Some(numbered.num) ELSE None)
         IN [m |-> advance_y(numbered.m, Px(MessageSpacing)), out |-> <<edge>>]

\* layout_return
layout_return(ret, m) ==
    IF m.call_stack = <<>> THEN [m |-> m, out |-> <<>>]
    ELSE LET popped == PopCall(m.call_stack)
             caller == popped.pair[1]
             callee == popped.pair[2]
             m1 == [m EXCEPT !.call_stack = popped.rest]
             y == m1.current_y
             m2 == deactivate([m1 EXCEPT !.last_message_y = y], callee)
             from_x == lifeline_x(m2, callee)
             to_x == lifeline_x(m2, caller)
             bounds == Rect(Min(from_x, to_x), y - Px(1), Max(Abs(to_x - from_x), Px(1)), Px(2))
             edge == EdgeElement("return_" \o callee \o "_" \o caller, bounds,
                                 ReturnPoints(from_x, to_x, y), ret.label, TRUE,
                                 "Association", None)
         IN [m |-> advance_y(m2, Px(MessageSpacing)), out |-> <<edge>>]

MessageId(msg) == "msg_" \o msg.from \o "_" \o msg.to

\* layout_message
layout_message(msg, m) ==
    LET line_count == msg.label.breaks
        m0 == IF line_count > 0 THEN advance_y(m, line_count * Px(LineHeight)) ELSE m
        y == m0.current_y
        m1 == [m0 EXCEPT !.last_message_y = y]
        from_x == lifeline_x(m1, msg.from)
        to_x == lifeline_x(m1, msg.to)
        m2 == IF msg.activate
              THEN [activate_at(m1, msg.to, y) EXCEPT
                       !.call_stack = Append(@, <<msg.from, msg.to>>)]
              ELSE m1
        m3 == IF msg.deactivate THEN deactivate(m2, msg.from) ELSE m2
        numbered == m3.autonumber.enabled
        m4 == IF numbered THEN autonumber_next(m3).m ELSE m3
        autonumber == IF numbered THEN Some(autonumber_next(m3).num) ELSE None
        is_self_message == msg.from = msg.to
        label_width == IF LabelIsEmpty(msg.label) THEN 0 ELSE message_label_width(msg.label)
        loop_width == Px(42)
        loop_height == Px(13)
        points == IF is_self_message
                  THEN <<Point(from_x, y), Point(from_x + loop_width, y),
                         Point(from_x + loop_width, y + loop_height),
                         Point(from_x, y + loop_height)>>
                  ELSE <<Point(from_x, y), Point(to_x, y)>>
        bounds == IF is_self_message
                  THEN Rect(from_x, y - Px(5), Max(loop_width, label_width),
                            loop_height + Px(10))
                  ELSE Rect(Min(from_x, to_x), y - Px(1),
                            Max(Abs(to_x - from_x), Px(1)), Px(2))
        edge == EdgeElement(MessageId(msg), bounds, points,
                            IF LabelIsEmpty(msg.label) THEN None ELSE Some(msg.label),
                            msg.dashed, "Association", autonumber)
        height == IF is_self_message THEN Px(30) ELSE Px(MessageSpacing)
    IN [m |-> advance_y(m4, height), out |-> <<edge>>]

\* layout_note
layout_note(note, m) ==
    LET y == m.current_y
        cx(i) == IF IsSome(participant_center_x(m, note.anchors[i]))
                 THEN participant_center_x(m, note.anchors[i])[1] ELSE Px(Margin)
        x == IF note.anchors = <<>> THEN Px(Margin)
             ELSE IF Len(note.anchors) = 1
                  THEN CASE note.position = "Left" -> cx(1) - Px(NoteWidth) - Px(20)
                         [] note.position = "Right" -> cx(1) + Px(20)
                         [] OTHER -> cx(1) - Px(NoteWidth) \div 2
                  ELSE (cx(1) + cx(Len(note.anchors))) \div 2 - Px(NoteWidth) \div 2
        elem == LayoutElement("note_" \o ToString(y \div Px(1)), "Rectangle",
                              Rect(x, y, Px(NoteWidth), Px(NoteHeight)))
    IN [m |-> advance_y(m, Px(NoteHeight) + Px(10)), out |-> <<elem>>]

\* layout_divider
layout_divider(m) ==
    LET y == m.current_y
        elem == LayoutElement("divider_" \o ToString(y \div Px(1)), "Text",
                              Rect(Px(Margin), y, m.max_x - Px(Margin), Px(DividerHeight)))
    IN [m |-> advance_y(m, Px(DividerHeight)), out |-> <<elem>>]

\* layout_delay
layout_delay(m) ==
    LET y == m.current_y
        elem == LayoutElement("delay_" \o ToString(y \div Px(1)), "Text",
                              Rect(Px(Margin), y, m.max_x - Px(Margin), Px(DelayHeight)))
    IN [m |-> advance_y(m, Px(DelayHeight)), out |-> <<elem>>]

\* participants whose edges find_fragment_x_bounds looks at: the direct Message children
FragmentTouched(frag, m) ==
    LET es == SectionElements(frag)
    IN {n \in Names : HasParticipant(m, n)
                      /\ \E i \in DOMAIN es : es[i].kind = "Message"
                                              /\ (es[i].from = n \/ es[i].to = n)}

\* find_fragment_x_bounds
find_fragment_x_bounds(frag, m) ==
    LET touched == FragmentTouched(frag, m)
        lefts == {GetParticipant(m, n).center_x - GetParticipant(m, n).width \div 2 : n \in touched}
        rights == {GetParticipant(m, n).center_x + GetParticipant(m, n).width \div 2 : n \in touched}
    IN IF touched = {} THEN <<Px(Margin), m.max_x>>
       ELSE <<CHOOSE v \in lefts : \A w \in lefts : v <= w,
              CHOOSE v \in rights : \A w \in rights : v >= w>>

FragmentId(frag) == "fragment_" \o frag.fragment_type

\* section 0 inherits the fragment header condition when it has none
InheritCondition(frag, sections) ==
    IF sections # <<>> /\ sections[1].condition = None /\ IsSome(frag.condition)
    THEN [sections EXCEPT ![1].condition = frag.condition]
    ELSE sections

FragmentSectionSwapped(condition, start_y, end_y, children) ==
    [condition |-> condition, start_y |-> end_y, end_y |-> start_y, children |-> children]

\* sections.push(FragmentSection { condition, start_y, end_y, children })
FragmentSection(condition, start_y, end_y, children) ==
    [condition |-> condition, start_y |-> start_y, end_y |-> end_y, children |-> children]

RECURSIVE layout_element(_, _)
RECURSIVE layout_elements(_, _)
RECURSIVE layout_sections(_, _, _)

RECURSIVE layout_elements_rewinding(_, _)
layout_elements_rewinding(es, m) ==
    IF es = <<>> THEN [m |-> m, out |-> <<>>]
    ELSE LET r == layout_element(Head(es), m)
             rest == layout_elements_rewinding(Tail(es),
                                               [r.m EXCEPT !.current_y = m.current_y])
         IN [m |-> rest.m, out |-> r.out \o rest.out]

\* the loop over frag.sections of layout_fragment
layout_sections(secs, i, m) ==
    IF i > Len(secs) THEN [m |-> m, out |-> <<>>]
    ELSE LET m0 == IF i > 1 THEN advance_y(m, Px(43)) ELSE m
             section_start_y == m0.current_y
             r == layout_elements(secs[i].elements, m0)
             sec == FragmentSection(secs[i].condition, section_start_y,
                                    r.m.current_y, r.out)
             rest == layout_sections(secs, i + 1, r.m)
         IN [m |-> rest.m, out |-> <<sec>> \o rest.out]

\* layout_fragment
layout_fragment(frag, m) ==
    LET start_y == m.current_y
        m0 == advance_y(m, Px(FragmentHeaderHeight) + Px(26))
        r == layout_sections(frag.sections, 1, m0)
        end_y == r.m.current_y + Px(FragmentPadding) + Px(5)
        m1 == advance_y([r.m EXCEPT !.current_y = end_y], Px(15))
        xb == find_fragment_x_bounds(frag, m1)
        fragment_bounds == Rect(xb[1] - Px(FragmentPadding), start_y,
                                xb[2] - xb[1] + Px(FragmentPadding) * 2, end_y - start_y)
    IN [m |-> m1,
        out |-> <<FragmentElement(FragmentId(frag), fragment_bounds,
                                  InheritCondition(frag, r.out))>>]

\* layout_element
layout_element(e, m) ==
    CASE e.kind = "Message" -> layout_message(e, m)
      [] e.kind = "Fragment" -> layout_fragment(e, m)
      [] e.kind = "Note" -> layout_note(e, m)
      [] e.kind = "Activation" -> [m |-> process_activation(e, m), out |-> <<>>]
      [] e.kind = "Divider" -> layout_divider(m)
      [] e.kind = "Delay" -> layout_delay(m)
      [] e.kind = "Space" -> [m |-> advance_y(m, Px(e.height)), out |-> <<>>]
      [] e.kind = "Autonumber" -> [m |-> process_autonumber(e, m), out |-> <<>>]
      [] e.kind = "Return" -> layout_return(e, m)
      [] OTHER -> [m |-> m, out |-> <<>>]

\* a list of elements laid out one after the other into one Vec
layout_elements(es, m) ==
    IF es = <<>> THEN [m |-> m, out |-> <<>>]
    ELSE LET r == layout_element(Head(es), m)
             rest == layout_elements(Tail(es), r.m)
         IN [m |-> rest.m, out |-> r.out \o rest.out]

-----------------------------------------------------------------------------
(* SequenceLayoutEngine: lifelines, activations, footers, bounds *)

\* add_lifelines
add_lifelines(m) ==
    LET end_y == m.current_y - Px(11)
        ps == ParticipantsIter(m)
    IN [i \in DOMAIN ps |->
          LET start_y == ps[i].header_bounds.y + Px(ParticipantHeight)
          IN EdgeElement("lifeline_" \o ps[i].id,
                         Rect(ps[i].center_x - Px(1) \div 2, start_y, Px(1), end_y - start_y),
                         <<Point(ps[i].center_x, start_y), Point(ps[i].center_x, end_y)>>,
                         None, TRUE, "Link", None)]

ActivationBoundsUnshifted(m, c) ==
    Rect(GetParticipant(m, c.info.participant).center_x - Px(ActivationWidth) \div 2,
         c.info.start_y, Px(ActivationWidth), Max(c.end_y - c.info.start_y, Px(10)))

\* add_activations: the rectangle of one completed activation
ActivationBounds(m, c) ==
    LET offset == ((c.info.level - 1) * Px(ActivationWidth)) \div 2
        x == GetParticipant(m, c.info.participant).center_x
             - Px(ActivationWidth) \div 2 + offset
        height == Max(c.end_y - c.info.start_y, Px(10))
    IN Rect(x, c.info.start_y, Px(ActivationWidth), height)

\* add_activations
RECURSIVE add_activations(_, _)
add_activations(m, i) ==
    IF i > Len(m.completed_activations) THEN <<>>
    ELSE LET c == m.completed_activations[i]
             here ==
               IF HasParticipant(m, c.info.participant)
               THEN <<LayoutElement("activation_" \o c.info.participant \o "_"
                                      \o ToString(i - 1),
                                    "Activation", ActivationBounds(m, c))>>
               ELSE <<>>
         IN here \o add_activations(m, i + 1)

\* add_participant_footers
add_participant_footers(m) ==
    LET y == m.current_y - Px(11)
        ps == ParticipantsIter(m)
    IN [i \in DOMAIN ps |->
          [LayoutElement("footer_" \o ps[i].id, "Rectangle",
                         Rect(ps[i].center_x - ps[i].width \div 2, y, ps[i].width,
                              Px(ParticipantHeight)))
              EXCEPT !.name = ps[i].display_name]]

\* steps 8-9 of layout: every box is stretched to the diagram height
StretchBoxes(boxes, m) ==
    LET footer_y == m.current_y - Px(11)
        total_height == footer_y + Px(ParticipantHeight) + Px(Margin)
    IN [i \in DOMAIN boxes |->
          [boxes[i] EXCEPT !.bounds.height = total_height - boxes[i].bounds.y - Px(5)]]

\* check_element_text_overflow, folded over a list of elements
RECURSIVE check_element_text_overflow(_, _, _)
check_element_text_overflow(es, m, acc) ==
    IF es = <<>> THEN acc
    ELSE LET e == Head(es)
             ps == Range(m.participants)
             a1 ==
               CASE e.kind = "Message" ->
                      IF e.from = e.to
                      THEN IF HasParticipant(m, e.from)
                           THEN [acc EXCEPT !.max_right =
                                    Max(@, GetParticipant(m, e.from).center_x + Px(40) + Px(5)
                                           + message_label_width(e.label))]
                           ELSE acc
                      ELSE LET left_x == Min(lifeline_x(m, e.from), lifeline_x(m, e.to))
                               text_start == left_x + Px(5)
                               text_end == text_start + message_label_width(e.label)
                               min_x == CHOOSE v \in {p.center_x - p.width \div 2 : p \in ps} :
                                           \A p \in ps : v <= p.center_x - p.width \div 2
                           IN [max_right |-> Max(acc.max_right, text_end),
                               max_left_overflow |->
                                  IF ps # {} /\ text_start < min_x
                                  THEN Max(acc.max_left_overflow, min_x - text_start)
                                  ELSE acc.max_left_overflow]
                 [] e.kind = "Fragment" -> check_element_text_overflow(SectionElements(e), m, acc)
                 [] e.kind = "Return" ->
                      IF IsSome(e.label) /\ ps # {}
                      THEN LET current_max_x ==
                                  CHOOSE v \in {p.center_x + p.width \div 2 : p \in ps} :
                                     \A p \in ps : v >= p.center_x + p.width \div 2
                           IN [acc EXCEPT !.max_right =
                                  Max(@, current_max_x + message_label_width(e.label[1]))]
                      ELSE acc
                 [] OTHER -> acc
         IN check_element_text_overflow(Tail(es), m, a1)

adjust_bounds_narrowing(d, m, bounds) ==
    LET current_right == bounds.x + bounds.width
        acc == check_element_text_overflow(d.elements, m,
                  [max_right |-> current_right, max_left_overflow |-> 0])
    IN IF acc.max_right > current_right
       THEN [bounds EXCEPT !.width = @ - (acc.max_right - current_right)]
       ELSE bounds

\* adjust_bounds_for_message_text
adjust_bounds_for_message_text(d, m, bounds) ==
    LET current_right == bounds.x + bounds.width
        acc == check_element_text_overflow(d.elements, m,
                  [max_right |-> current_right, max_left_overflow |-> 0])
        b1 == IF acc.max_right > current_right
              THEN [bounds EXCEPT !.width = acc.max_right - bounds.x + Px(5)]
              ELSE bounds
    IN IF acc.max_left_overflow > 0
       THEN [b1 EXCEPT !.x = @ - (acc.max_left_overflow + Px(5)),
                       !.width = @ + acc.max_left_overflow + Px(5)]
       ELSE b1

-----------------------------------------------------------------------------
(* Inputs of the sequence layout *)

MaxElems == 2

NoLabel == Label(0, 0)
Short == Label(4, 0)
Long == Label(40, 0)
Multi == Label(10, 1)

LeafElements ==
    { Message("A", "B", Short, FALSE, FALSE),
      Message("B", "A", Long, FALSE, FALSE),
      Message("A", "C", Long, FALSE, FALSE),
      Message("A", "B", NoLabel, TRUE, FALSE),
      Message("B", "A", Short, FALSE, TRUE),
      Message("A", "A", Short, TRUE, FALSE),
      Message("B", "B", Multi, FALSE, FALSE),
      Return(None), Return(Some(Long)),
      NoteOf("Over", <<"B">>), NoteOf("Left", <<"A">>),
      Activation("B", "Activate"), Activation("B", "Deactivate"),
      Divider, Delay, Space(10),
      Autonumber("Start", None, None), Autonumber("Stop", None, None) }

FragmentElements ==
    { Fragment("alt", Some("c1"),
               <<Section(Some("c1"), <<Message("A", "B", Short, FALSE, FALSE)>>),
                 Section(Some("c2"), <<Message("B", "A", Long, FALSE, FALSE)>>)>>),
      Fragment("alt", Some("c1"),
               <<Section(None, <<Message("A", "B", Short, TRUE, FALSE),
                                 Fragment("loop", None,
                                          <<Section(None, <<Message("B", "C", Short, FALSE, FALSE)>>)>>)>>),
                 Section(None, <<Return(None)>>)>>),
      Fragment("loop", None,
               <<Section(None, <<Message("A", "A", Long, TRUE, FALSE), Return(None)>>)>>),
      Fragment("opt", Some("c1"),
               <<Section(Some("c1"), <<NoteOf("Over", <<"B">>),
                                       Message("B", "A", Short, FALSE, FALSE)>>)>>),
      Fragment("alt", None, <<Section(None, <<>>), Section(None, <<>>)>>) }

TopElements == LeafElements \cup FragmentElements

ElementLists(n) == UNION {[1..k -> TopElements] : k \in 0..n}

Declarations ==
    { [participants |-> <<>>, boxes |-> <<>>],
      [participants |-> <<Participant("A", None, "Participant"),
                          Participant("B", None, "Participant"),
                          Participant("C", None, "Participant")>>,
       boxes |-> <<>>],
      [participants |-> <<Participant("Service", Some("A"), "Participant"),
                          Participant("B", None, "Actor")>>,
       boxes |-> <<ParticipantBox(Some("Front"), <<"A">>)>>],
      [participants |-> <<Participant("B", None, "Participant"),
                          Participant("A", None, "Participant"),
                          Participant("A", None, "Actor")>>,
       boxes |-> <<ParticipantBox(None, <<"B", "A">>), ParticipantBox(None, <<>>)>>] }

SeqDiagrams ==
    {[participants |-> v.participants, boxes |-> v.boxes, elements |-> es] :
        v \in Declarations, es \in ElementLists(MaxElems)}

EmptyResult == [elements |-> <<>>, bounds |-> Rect(0, 0, 0, 0)]

-----------------------------------------------------------------------------
(* SequenceLayoutEngine::layout as a sequence of steps *)

InitSeq ==
    /\ mode = "seq"
    /\ pc = "participants"
    /\ diagram \in SeqDiagrams
    /\ idx = 1
    /\ metrics = NewMetrics
    /\ elements = <<>>
    /\ box_elements = <<>>
    /\ result = EmptyResult
    /\ source = <<>>
    /\ fragment_stack = <<>>
    /\ current_section_elements = <<>>
    /\ current_box = None

\* step 1
LayoutParticipants ==
    /\ mode = "seq" /\ pc = "participants"
    /\ LET r == layout_participants(diagram, metrics)
       IN /\ metrics' = r.m
          /\ elements' = elements \o r.out
    /\ pc' = "boxes"
    /\ UNCHANGED <<mode, diagram, idx, box_elements, result, parsevars>>

\* the participant whose header Y seeds the cursor: the first of the map iteration
FirstParticipantY(m) ==
    IF ParticipantsIter(m) = <<>> THEN Px(Margin) ELSE ParticipantsIter(m)[1].header_bounds.y

\* steps 1.5 and 2
LayoutBoxes ==
    /\ mode = "seq" /\ pc = "boxes"
    /\ box_elements' = layout_boxes(diagram, metrics, 1)
    /\ metrics' = [metrics EXCEPT
                      !.current_y = FirstParticipantY(metrics) + Px(ParticipantHeight) + Px(30)]
    /\ pc' = "elements"
    /\ UNCHANGED <<mode, diagram, idx, elements, result, parsevars>>

EmitInFront(elems, out) == out \o elems

\* Vec::push / Vec::extend of the elements an operation produced
Emit(elems, out) == elems \o out

\* step 3, one iteration
LayoutElementStep ==
    /\ mode = "seq" /\ pc = "elements" /\ idx <= Len(diagram.elements)
    /\ LET r == layout_element(diagram.elements[idx], metrics)
       IN /\ metrics' = r.m
          /\ elements' = Emit(elements, r.out)
    /\ idx' = idx + 1
    /\ UNCHANGED <<mode, pc, diagram, box_elements, result, parsevars>>

\* step 4
FinalizeActivations ==
    /\ mode = "seq" /\ pc = "elements" /\ idx > Len(diagram.elements)
    /\ metrics' = finalize_activations(metrics, metrics.current_y)
    /\ pc' = "lifelines"
    /\ UNCHANGED <<mode, diagram, idx, elements, box_elements, result, parsevars>>

\* step 5
AddLifelines ==
    /\ mode = "seq" /\ pc = "lifelines"
    /\ elements' = Emit(elements, add_lifelines(metrics))
    /\ pc' = "activations"
    /\ UNCHANGED <<mode, diagram, idx, metrics, box_elements, result, parsevars>>

\* step 6
AddActivations ==
    /\ mode = "seq" /\ pc = "activations"
    /\ elements' = Emit(elements, add_activations(metrics, 1))
    /\ pc' = "footers"
    /\ UNCHANGED <<mode, diagram, idx, metrics, box_elements, result, parsevars>>

\* step 7
AddParticipantFooters ==
    /\ mode = "seq" /\ pc = "footers"
    /\ elements' = Emit(elements, add_participant_footers(metrics))
    /\ pc' = "bounds"
    /\ UNCHANGED <<mode, diagram, idx, metrics, box_elements, result, parsevars>>

\* steps 8-11
CalculateBounds ==
    /\ mode = "seq" /\ pc = "bounds"
    /\ LET final_elements == StretchBoxes(box_elements, metrics) \o elements
       IN result' = [elements |-> final_elements, bounds |-> calculate_bounds(final_elements)]
    /\ pc' = "overflow"
    /\ UNCHANGED <<mode, diagram, idx, metrics, elements, box_elements, parsevars>>

\* step 12
AdjustBounds ==
    /\ mode = "seq" /\ pc = "overflow"
    /\ result' = [result EXCEPT
                     !.bounds = adjust_bounds_for_message_text(diagram, metrics, result.bounds)]
    /\ pc' = "done"
    /\ UNCHANGED <<mode, diagram, idx, metrics, elements, box_elements, parsevars>>

SeqNext ==
    \/ LayoutParticipants
    \/ LayoutBoxes
    \/ LayoutElementStep
    \/ FinalizeActivations
    \/ AddLifelines
    \/ AddActivations
    \/ AddParticipantFooters
    \/ CalculateBounds
    \/ AdjustBounds


SeqSpec == InitSeq /\ [][SeqNext]_vars

SeqDone == mode = "seq" /\ pc = "done"

-----------------------------------------------------------------------------
(* parse_sequence / process_rule (plantuml-parser) *)

MaxStmts == 6
MaxLeaves == 2

EmptyDiagram == [participants |-> <<>>, boxes |-> <<>>, elements |-> <<>>]

\* a statement of the source: the grammar rule that matched and what its parse_* returns
Stmt(rule, arg) == [rule |-> rule, arg |-> arg]

LeafRules == {"message", "note_stmt", "divider", "delay", "activate_stmt",
              "deactivate_stmt", "destroy_stmt", "autonumber", "return_stmt"}

Conditions == {None, Some("c1"), Some("c2")}
FragmentStarts == {[fragment_type |-> "alt", condition |-> Some("c1")],
                   [fragment_type |-> "loop", condition |-> None]}

CountRules(src, rules) == Cardinality({i \in DOMAIN src : src[i].rule \in rules})

InitParse ==
    /\ mode = "parse"
    /\ pc = "parsing"
    /\ diagram = EmptyDiagram
    /\ source = <<>>
    /\ fragment_stack = <<>>
    /\ current_section_elements = <<>>
    /\ current_box = None
    /\ idx = 1
    /\ metrics = NewMetrics
    /\ elements = <<>>
    /\ box_elements = <<>>
    /\ result = EmptyResult

Parsing == mode = "parse" /\ pc = "parsing" /\ Len(source) < MaxStmts

\* `if fragment_stack.is_empty() { diagram.add_element(e) } else { current_section_elements.push(e) }`
AddElement(stmt, e) ==
    /\ source' = Append(source, stmt)
    /\ IF fragment_stack = <<>>
       THEN /\ diagram' = [diagram EXCEPT !.elements = Append(@, e)]
            /\ UNCHANGED current_section_elements
       ELSE /\ current_section_elements' = Append(current_section_elements, e)
            /\ UNCHANGED diagram
    /\ UNCHANGED <<mode, pc, fragment_stack, current_box, layoutvars>>

LeafAllowed == Parsing /\ CountRules(source, LeafRules) < MaxLeaves

\* Rule::message
MessageStmt ==
    /\ LeafAllowed
    /\ \E m \in {Message("A", "B", Short, FALSE, FALSE)} :
          AddElement(Stmt("message", m), m)

\* Rule::note_stmt
NoteStmt ==
    /\ LeafAllowed
    /\ AddElement(Stmt("note_stmt", NoteOf("Over", <<"B">>)), NoteOf("Over", <<"B">>))

\* Rule::divider
DividerStmt == LeafAllowed /\ AddElement(Stmt("divider", Divider), Divider)

\* Rule::delay
DelayStmt == LeafAllowed /\ AddElement(Stmt("delay", Delay), Delay)

\* Rule::activate_stmt
ActivateStmt ==
    /\ LeafAllowed
    /\ AddElement(Stmt("activate_stmt", "B"), Activation("B", "Activate"))

\* Rule::deactivate_stmt
DeactivateStmt ==
    /\ LeafAllowed
    /\ AddElement(Stmt("deactivate_stmt", "B"), Activation("B", "Deactivate"))

\* Rule::destroy_stmt
DestroyStmt ==
    /\ LeafAllowed
    /\ AddElement(Stmt("destroy_stmt", "B"), Activation("B", "Destroy"))

\* Rule::autonumber
AutonumberStmt ==
    /\ LeafAllowed
    /\ AddElement(Stmt("autonumber", Autonumber("Start", None, None)),
                  Autonumber("Start", None, None))

\* Rule::return_stmt
ReturnStmt == LeafAllowed /\ AddElement(Stmt("return_stmt", Return(None)), Return(None))

\* what Rule::fragment_start does to current_section_elements
SectionBufferAtStart(buffer) == <<>>

\* Rule::fragment_start
FragmentStart ==
    /\ Parsing
    /\ \E fs \in FragmentStarts :
          /\ source' = Append(source, Stmt("fragment_start", fs))
          /\ fragment_stack' = Append(fragment_stack,
                                      [fragment_type |-> fs.fragment_type,
                                       condition |-> fs.condition,
                                       current_condition |-> fs.condition,
                                       sections |-> <<>>])
    /\ current_section_elements' = SectionBufferAtStart(current_section_elements)
    /\ UNCHANGED <<mode, pc, diagram, current_box, layoutvars>>

\* Rule::fragment_else
FragmentElse ==
    /\ Parsing
    /\ \E new_condition \in {None, Some("c2")} :
          /\ source' = Append(source, Stmt("fragment_else", new_condition))
          /\ IF fragment_stack # <<>>
             THEN LET n == Len(fragment_stack)
                      top == fragment_stack[n]
                  IN /\ fragment_stack' =
                          [fragment_stack EXCEPT
                              ![n].sections = Append(@, Section(top.current_condition,
                                                                current_section_elements)),
                              ![n].current_condition = new_condition]
                     /\ current_section_elements' = <<>>
             ELSE UNCHANGED <<fragment_stack, current_section_elements>>
    /\ UNCHANGED <<mode, pc, diagram, current_box, layoutvars>>

\* Rule::fragment_end
FragmentEnd ==
    /\ Parsing
    /\ source' = Append(source, Stmt("fragment_end", None))
    /\ IF fragment_stack # <<>>
       THEN LET n == Len(fragment_stack)
                top == fragment_stack[n]
                fragment == Fragment(top.fragment_type, top.condition,
                                     Append(top.sections,
                                            Section(top.current_condition,
                                                    current_section_elements)))
            IN /\ fragment_stack' = SubSeq(fragment_stack, 1, n - 1)
               /\ IF n = 1
                  THEN /\ diagram' = [diagram EXCEPT !.elements = Append(@, fragment)]
                       /\ current_section_elements' = <<>>
                  ELSE /\ current_section_elements' = <<fragment>>
                       /\ UNCHANGED diagram
       ELSE UNCHANGED <<fragment_stack, current_section_elements, diagram>>
    /\ UNCHANGED <<mode, pc, current_box, layoutvars>>

\* parse_sequence: the pairs are exhausted and Ok(diagram) is returned
ParseFinish ==
    /\ mode = "parse" /\ pc = "parsing"
    /\ pc' = "parsed"
    /\ UNCHANGED <<mode, diagram, parsevars, layoutvars>>

ParseNext ==
    \/ MessageStmt
    \/ NoteStmt
    \/ DividerStmt
    \/ DelayStmt
    \/ ActivateStmt
    \/ DeactivateStmt
    \/ DestroyStmt
    \/ AutonumberStmt
    \/ ReturnStmt
    \/ FragmentStart
    \/ FragmentElse
    \/ FragmentEnd
    \/ ParseFinish

ParseSpec == InitParse /\ [][ParseNext]_vars

-----------------------------------------------------------------------------
(* process_rule: participant declarations and boxes, followed by the layout of *)
(* the parsed diagram                                                          *)

MaxDecls == 5

\* SequenceDiagram::add_participant
add_participant(d, participant) == [d EXCEPT !.participants = Append(@, participant)]

\* SequenceDiagram::add_box
add_box(d, box) == [d EXCEPT !.boxes = Append(@, box)]

DeclaredParticipants == {Participant("Service", Some("A"), "Participant"),
                         Participant("B", None, "Actor")}

DeclMessages == {Message("A", "B", Short, FALSE, FALSE),
                 Message("B", "A", Short, FALSE, FALSE)}

InitDecl ==
    /\ mode = "decl"
    /\ pc = "parsing"
    /\ diagram = EmptyDiagram
    /\ source = <<>>
    /\ fragment_stack = <<>>
    /\ current_section_elements = <<>>
    /\ current_box = None
    /\ idx = 1
    /\ metrics = NewMetrics
    /\ elements = <<>>
    /\ box_elements = <<>>
    /\ result = EmptyResult

DeclParsing == mode = "decl" /\ pc = "parsing" /\ Len(source) < MaxDecls

\* Rule::box_start
BoxStart ==
    /\ DeclParsing
    /\ \E title \in {Some("Front")} :
          /\ source' = Append(source, Stmt("box_start", title))
          /\ current_box' = Some([title |-> title, participants |-> <<>>])
    /\ UNCHANGED <<mode, pc, diagram, fragment_stack, current_section_elements, layoutvars>>

\* Rule::box_end
BoxEnd ==
    /\ DeclParsing
    /\ source' = Append(source, Stmt("box_end", None))
    /\ IF IsSome(current_box)
       THEN diagram' = add_box(diagram, ParticipantBox(current_box[1].title,
                                                       current_box[1].participants))
       ELSE UNCHANGED diagram
    /\ current_box' = None
    /\ UNCHANGED <<mode, pc, fragment_stack, current_section_elements, layoutvars>>

\* participant.id.alias.clone().unwrap_or_else(|| participant.id.name.clone())
BoxMemberKey(p) == IF IsSome(p.alias) THEN p.alias[1] ELSE p.name

\* Rule::participant_decl
ParticipantDecl ==
    /\ DeclParsing
    /\ \E participant \in DeclaredParticipants :
          /\ source' = Append(source, Stmt("participant_decl", participant))
          /\ current_box' =
                IF IsSome(current_box)
                THEN Some([current_box[1] EXCEPT
                              !.participants = Append(@, BoxMemberKey(participant))])
                ELSE current_box
          /\ diagram' = add_participant(diagram, participant)
    /\ UNCHANGED <<mode, pc, fragment_stack, current_section_elements, layoutvars>>

\* Rule::message, outside any fragment
DeclMessageStmt ==
    /\ DeclParsing
    /\ \E m \in DeclMessages : AddElement(Stmt("message", m), m)

\* parse_sequence: the pairs are exhausted and Ok(diagram) is returned
DeclFinish ==
    /\ mode = "decl" /\ pc = "parsing"
    /\ pc' = "parsed"
    /\ UNCHANGED <<mode, diagram, parsevars, layoutvars>>

\* the facade hands the parsed diagram to SequenceLayoutEngine::layout
StartLayout ==
    /\ mode = "decl" /\ pc = "parsed"
    /\ mode' = "seq"
    /\ pc' = "participants"
    /\ UNCHANGED <<diagram, parsevars, layoutvars>>

DeclNext ==
    \/ BoxStart
    \/ BoxEnd
    \/ ParticipantDecl
    \/ DeclMessageStmt
    \/ DeclFinish
    \/ StartLayout
    \/ SeqNext

DeclSpec == InitDecl /\ [][DeclNext]_vars

DeclParsed == mode = "decl" /\ pc = "parsed"

-----------------------------------------------------------------------------
(* Vocabulary of the properties *)

\* every element of a layout output, children of fragment sections included
RECURSIVE AllElements(_)
AllElements(es) ==
    IF es = <<>> THEN <<>>
    ELSE <<Head(es)>>
         \o AllElements(Flatten([i \in DOMAIN Head(es).sections |->
                                    Head(es).sections[i].children]))
         \o AllElements(Tail(es))

\* the from/to of every message of a list of AST elements, at any fragment depth
RECURSIVE MessageParticipants(_)
MessageParticipants(es) ==
    IF es = <<>> THEN {}
    ELSE LET e == Head(es)
         IN (CASE e.kind = "Message" -> {e.from, e.to}
               [] e.kind = "Fragment" -> MessageParticipants(SectionElements(e))
               [] OTHER -> {})
            \cup MessageParticipants(Tail(es))

DistinctParticipants(d) ==
    {ParticipantKey(d.participants[i]) : i \in DOMAIN d.participants}
    \cup MessageParticipants(d.elements)

ParticipantIds == Names \cup {"Service"}

CountId(es, id) == Cardinality({i \in DOMAIN es : es[i].id = id})

HeaderIds == {"participant_" \o n : n \in ParticipantIds}
FooterIds == {"footer_" \o n : n \in ParticipantIds}
LifelineIds == {"lifeline_" \o n : n \in ParticipantIds}

CountIn(es, ids) == Cardinality({i \in DOMAIN es : es[i].id \in ids})

\* C1: a diagram with N distinct participants gets exactly N headers, N footers and
\* N lifelines, one of each per participant.
C1_OnePerParticipant ==
    SeqDone =>
        LET ps == DistinctParticipants(diagram)
            N == Cardinality(ps)
        IN /\ CountIn(result.elements, HeaderIds) = N
           /\ CountIn(result.elements, FooterIds) = N
           /\ CountIn(result.elements, LifelineIds) = N
           /\ \A n \in ps :
                 /\ CountId(result.elements, "participant_" \o n) = 1
                 /\ CountId(result.elements, "footer_" \o n) = 1
                 /\ CountId(result.elements, "lifeline_" \o n) = 1

\* a participant declared with an alias, and one that occurs only inside a nested fragment
C1_Witness ==
    /\ SeqDone
    /\ \E i \in DOMAIN diagram.participants : IsSome(diagram.participants[i].alias)
    /\ "C" \in DistinctParticipants(diagram)
    /\ \A i \in DOMAIN diagram.elements :
          diagram.elements[i].kind = "Message" => "C" \notin {diagram.elements[i].from,
                                                               diagram.elements[i].to}
    /\ CountId(result.elements, "participant_C") = 1

\* C2: element ids of a layout result are unique.
C2_IdsUnique ==
    SeqDone =>
        \A i, j \in DOMAIN result.elements :
            i # j => result.elements[i].id # result.elements[j].id

IsBox(e) == e.element_type = "ParticipantBox"
IsHeader(e) == e.id \in HeaderIds
IsFooter(e) == e.id \in FooterIds
IsLifeline(e) == e.element_type = "Edge" /\ e.edge_type = "Link"
IsActivation(e) == e.element_type = "Activation"
IsBody(e) == ~(IsBox(e) \/ IsHeader(e) \/ IsFooter(e) \/ IsLifeline(e) \/ IsActivation(e))

\* position of an element's group in the order the spec documents
RankDocumented(e) ==
    CASE IsBox(e) -> 0 [] IsHeader(e) -> 1 [] IsActivation(e) -> 3
      [] IsLifeline(e) -> 4 [] IsFooter(e) -> 5 [] OTHER -> 2

\* position of an element's group in the order layout() emits
RankEmitted(e) ==
    CASE IsBox(e) -> 0 [] IsHeader(e) -> 1 [] IsLifeline(e) -> 3
      [] IsActivation(e) -> 4 [] IsFooter(e) -> 5 [] OTHER -> 2

\* top-level diagram elements come out in source order: each one lies below the one before
BodyInSourceOrder(es) ==
    \A i, j \in DOMAIN es :
        (i < j /\ IsBody(es[i]) /\ IsBody(es[j])) => es[i].bounds.y < es[j].bounds.y

\* C3 as written: boxes, headers, top-level elements in source order, activations,
\* lifelines, footers.
C3_OrderAsDocumented ==
    SeqDone =>
        /\ \A i, j \in DOMAIN result.elements :
              i < j => RankDocumented(result.elements[i]) <= RankDocumented(result.elements[j])
        /\ BodyInSourceOrder(result.elements)

\* C3 amended: boxes, headers, top-level elements in source order, lifelines,
\* activation rectangles, footers.
C3_OrderAsEmitted ==
    SeqDone =>
        /\ \A i, j \in DOMAIN result.elements :
              i < j => RankEmitted(result.elements[i]) <= RankEmitted(result.elements[j])
        /\ BodyInSourceOrder(result.elements)

\* a result holding a box, headers, two body elements, a lifeline, an activation, footers
C3_Witness ==
    /\ SeqDone
    /\ \E i \in DOMAIN result.elements : IsBox(result.elements[i])
    /\ \E i \in DOMAIN result.elements : IsActivation(result.elements[i])
    /\ \E i \in DOMAIN result.elements : IsLifeline(result.elements[i])
    /\ Cardinality({i \in DOMAIN result.elements : IsBody(result.elements[i])}) = 2

\* C5: the bounds of every layout result have positive width and height.
C5_BoundsPositive ==
    SeqDone => result.bounds.width > 0 /\ result.bounds.height > 0

EdgeWellFormed(e) ==
    /\ Len(e.points) >= 2
    /\ \A k \in 1..(Len(e.points) - 1) : e.points[k] # e.points[k + 1]

\* C6: every Edge has at least 2 points and no two consecutive points are equal.
C6_EdgesWellFormed ==
    SeqDone =>
        \A e \in Range(AllElements(result.elements)) :
            e.element_type = "Edge" => EdgeWellFormed(e)

StrictlyContains(outer, inner) ==
    /\ outer.x < inner.x
    /\ outer.y < inner.y
    /\ inner.x + inner.width < outer.x + outer.width
    /\ inner.y + inner.height < outer.y + outer.height

ChildrenOf(f) == Flatten([i \in DOMAIN f.sections |-> f.sections[i].children])

\* C7: a Fragment's bounds strictly contain the bounds of every child of its sections.
C7_FragmentContainsChildren ==
    SeqDone =>
        \A f \in Range(AllElements(result.elements)) :
            f.element_type = "Fragment" =>
                \A c \in Range(ChildrenOf(f)) : StrictlyContains(f.bounds, c.bounds)

\* the Fragment elements of the top level and the Fragment elements of the AST, in order
TopFragments(es) == SelectSeq(es, LAMBDA e : e.element_type = "Fragment")
AstFragments(es) == SelectSeq(es, LAMBDA e : e.kind = "Fragment")

SectionsOrdered(f) ==
    /\ \A i \in DOMAIN f.sections :
          /\ f.sections[i].start_y <= f.sections[i].end_y
          /\ f.bounds.y <= f.sections[i].start_y
          /\ f.sections[i].end_y <= f.bounds.y + f.bounds.height
    /\ \A i \in 1..(Len(f.sections) - 1) : f.sections[i].end_y <= f.sections[i + 1].start_y

\* C8: in every Fragment, each section has start_y <= end_y, sections are stored in
\* source order, consecutive sections do not overlap, and all lie inside the fragment.
C8_SectionsOrdered ==
    SeqDone =>
        /\ \A f \in Range(AllElements(result.elements)) :
              f.element_type = "Fragment" => SectionsOrdered(f)
        /\ LET out == TopFragments(result.elements)
               ast == AstFragments(diagram.elements)
           IN /\ Len(out) = Len(ast)
              /\ \A k \in DOMAIN out :
                    /\ Len(out[k].sections) = Len(ast[k].sections)
                    /\ \A i \in DOMAIN out[k].sections :
                          /\ Len(out[k].sections[i].children) <= Len(ast[k].sections[i].elements)
                          /\ (i > 1 => out[k].sections[i].condition = ast[k].sections[i].condition)

\* a fragment with two sections, the first of which holds a nested fragment
C8_Witness ==
    /\ SeqDone
    /\ \E f \in Range(result.elements) :
          /\ f.element_type = "Fragment"
          /\ Len(f.sections) = 2
          /\ f.sections[1].start_y < f.sections[1].end_y
          /\ \E c \in Range(f.sections[1].children) : c.element_type = "Fragment"

-----------------------------------------------------------------------------
(* The syntax tree a source denotes, read off the statements alone *)

Parsed == mode = "parse" /\ pc = "parsed"

StartsUpTo(src, i) == Cardinality({j \in 1..i : src[j].rule = "fragment_start"})
EndsUpTo(src, i) == Cardinality({j \in 1..i : src[j].rule = "fragment_end"})

\* number of fragments open after statement i
Depth(src, i) == StartsUpTo(src, i) - EndsUpTo(src, i)

\* every else and end has an open fragment, and every fragment is closed
Balanced(src) ==
    /\ \A i \in DOMAIN src :
          /\ Depth(src, i) >= 0
          /\ src[i].rule = "fragment_else" => Depth(src, i) > 0
    /\ Depth(src, Len(src)) = 0

ElementOf(stmt) ==
    CASE stmt.rule = "activate_stmt" -> Activation(stmt.arg, "Activate")
      [] stmt.rule = "deactivate_stmt" -> Activation(stmt.arg, "Deactivate")
      [] stmt.rule = "destroy_stmt" -> Activation(stmt.arg, "Destroy")
      [] OTHER -> stmt.arg

\* the leaf statements of a source, in source order
SourceLeaves(src) ==
    LET leaves == SelectSeq(src, LAMBDA st : st.rule \in LeafRules)
    IN [i \in DOMAIN leaves |-> ElementOf(leaves[i])]

\* the leaves of a syntax tree, depth first
RECURSIVE LeavesOf(_)
LeavesOf(es) ==
    IF es = <<>> THEN <<>>
    ELSE (IF Head(es).kind = "Fragment"
          THEN LeavesOf(SectionElements(Head(es)))
          ELSE <<Head(es)>>)
         \o LeavesOf(Tail(es))

\* index of the end that closes the fragment started at statement p
MatchingEnd(src, p) ==
    CHOOSE q \in (p + 1)..Len(src) :
        /\ Depth(src, q) = Depth(src, p) - 1
        /\ \A j \in (p + 1)..(q - 1) : Depth(src, j) >= Depth(src, p)

\* the statements strictly inside src[p..q] that belong to the fragment itself
OwnIndices(src, p, q) ==
    {j \in (p + 1)..(q - 1) :
        \/ src[j].rule = "fragment_start" /\ Depth(src, j) = Depth(src, p) + 1
        \/ src[j].rule \in LeafRules \cup {"fragment_else"} /\ Depth(src, j) = Depth(src, p)}

\* the elements the statements lo..hi denote at their own nesting level
RECURSIVE TreeOf(_, _, _)
TreeOf(src, lo, hi) ==
    IF lo > hi THEN <<>>
    ELSE IF src[lo].rule = "fragment_start"
    THEN LET q == MatchingEnd(src, lo)
             elses == {j \in OwnIndices(src, lo, q) : src[j].rule = "fragment_else"}
             cuts == <<lo>> \o [k \in 1..Cardinality(elses) |->
                                   CHOOSE j \in elses :
                                       Cardinality({e \in elses : e < j}) = k - 1]
                          \o <<q>>
             cond(k) == IF k = 1 THEN src[lo].arg.condition ELSE src[cuts[k]].arg
             secs == [k \in 1..(Len(cuts) - 1) |->
                         Section(cond(k), TreeOf(src, cuts[k] + 1, cuts[k + 1] - 1))]
         IN <<Fragment(src[lo].arg.fragment_type, src[lo].arg.condition, secs)>>
            \o TreeOf(src, q + 1, hi)
    ELSE <<ElementOf(src[lo])>> \o TreeOf(src, lo + 1, hi)

ExpectedElements(src) == TreeOf(src, 1, Len(src))

\* C9: for a balanced source, every leaf statement appears exactly once in the AST, in
\* source order, in the section of the innermost fragment open at that point; a nested
\* fragment is appended after the statements that precede it and none of them is lost.
C9_TreeMatchesSource ==
    (Parsed /\ Balanced(source)) =>
        /\ LeavesOf(diagram.elements) = SourceLeaves(source)
        /\ diagram.elements = ExpectedElements(source)

\* the fragments of a syntax tree, depth first, each as its type and section conditions
RECURSIVE ShapesOf(_)
ShapesOf(es) ==
    IF es = <<>> THEN <<>>
    ELSE (IF Head(es).kind = "Fragment"
          THEN <<[fragment_type |-> Head(es).fragment_type,
                  conditions |-> [i \in DOMAIN Head(es).sections |->
                                     Head(es).sections[i].condition]]>>
               \o ShapesOf(SectionElements(Head(es)))
          ELSE <<>>)
         \o ShapesOf(Tail(es))

\* the shape the fragment started at statement p must have: the header condition, then
\* the condition of each of its own else statements
ExpectedShape(src, p) ==
    LET q == MatchingEnd(src, p)
        elses == SelectSeq([j \in 1..Len(src) |-> j],
                           LAMBDA j : /\ p < j /\ j < q
                                      /\ src[j].rule = "fragment_else"
                                      /\ Depth(src, j) = Depth(src, p))
    IN [fragment_type |-> src[p].arg.fragment_type,
        conditions |-> <<src[p].arg.condition>>
                       \o [k \in DOMAIN elses |-> src[elses[k]].arg]]

ExpectedShapes(src) ==
    LET starts == SelectSeq([j \in 1..Len(src) |-> j],
                            LAMBDA j : src[j].rule = "fragment_start")
    IN [k \in DOMAIN starts |-> ExpectedShape(src, starts[k])]

\* C10: a fragment with k else statements yields exactly one Fragment with k + 1
\* sections; section 0 carries the header's condition and section i the condition of
\* the i-th else.
C10_OneFragmentPerStart ==
    (Parsed /\ Balanced(source)) => ShapesOf(diagram.elements) = ExpectedShapes(source)

\* some end statement arrives while no fragment is open
UnmatchedEnd(src) == \E i \in DOMAIN src : Depth(src, i) < 0

\* C11: a fragment end that occurs while the fragment stack is empty makes parsing
\* fail: no diagram is returned for such a source.
C11_UnmatchedEndFails == ~(Parsed /\ UnmatchedEnd(source))

-----------------------------------------------------------------------------
(* Declarations, aliases and boxes *)

StmtIndices(src, rule) == {i \in DOMAIN src : src[i].rule = rule}

\* the source declares the alias A exactly once, for the display name "Service"
AliasDeclaredOnce(src) ==
    Cardinality({i \in StmtIndices(src, "participant_decl") :
                    src[i].arg.alias = Some("A") \/ src[i].arg.name = "A"}) = 1

SourceMessages(src) ==
    LET ms == SelectSeq(src, LAMBDA st : st.rule = "message")
    IN [i \in DOMAIN ms |-> ms[i].arg]

ElementsWithId(es, id) == SelectSeq(es, LAMBDA e : e.id = id)

\* C12: a participant declared with a display name and an alias A stays uniquely mapped:
\* the AST holds one participant (name = display name, alias = A), messages keep A as
\* from/to, and the layout has exactly one header and one footer for A, both labelled
\* with the display name.
C12_AliasUniquelyMapped ==
    (SeqDone /\ AliasDeclaredOnce(source)) =>
        /\ \E i \in DOMAIN diagram.participants :
              /\ diagram.participants[i].name = "Service"
              /\ diagram.participants[i].alias = Some("A")
              /\ \A j \in DOMAIN diagram.participants :
                    (diagram.participants[j].alias = Some("A")
                     \/ diagram.participants[j].name = "A") => j = i
        /\ diagram.elements = SourceMessages(source)
        /\ LET hs == ElementsWithId(result.elements, "participant_A")
               fs == ElementsWithId(result.elements, "footer_A")
           IN /\ Len(hs) = 1 /\ hs[1].name = "Service"
              /\ Len(fs) = 1 /\ fs[1].name = "Service"
        /\ \A e \in Range(result.elements) :
              e.name = "Service" => e.id \in {"participant_A", "footer_A"}

\* the alias is declared once, and messages refer to A as sender and as receiver
C12_Witness ==
    /\ SeqDone
    /\ AliasDeclaredOnce(source)
    /\ \E i, j \in DOMAIN diagram.elements :
          diagram.elements[i].from = "A" /\ diagram.elements[j].to = "A"
    /\ Len(ElementsWithId(result.elements, "participant_A")) = 1

\* number of box_start / end box pairs of src[i..], d boxes being open and c pairs counted
RECURSIVE MatchedBoxes(_, _, _, _)
MatchedBoxes(src, i, d, c) ==
    IF i > Len(src) THEN c
    ELSE CASE src[i].rule = "box_start" -> MatchedBoxes(src, i + 1, d + 1, c)
           [] src[i].rule = "box_end" ->
                 IF d > 0 THEN MatchedBoxes(src, i + 1, d - 1, c + 1)
                 ELSE MatchedBoxes(src, i + 1, d, c)
           [] OTHER -> MatchedBoxes(src, i + 1, d, c)

BoxMarkers(src) == StmtIndices(src, "box_start") \cup StmtIndices(src, "box_end")

\* the pairs (start, end) with no other box marker between them, in source order
InnermostPairs(src) ==
    SelectSeq([j \in 1..Len(src) |-> j],
              LAMBDA j : /\ src[j].rule = "box_end"
                         /\ \E i \in 1..(j - 1) :
                               /\ src[i].rule = "box_start"
                               /\ BoxMarkers(src) \cap (i + 1)..(j - 1) = {})

StartOf(src, j) == CHOOSE i \in 1..(j - 1) :
                      src[i].rule = "box_start" /\ BoxMarkers(src) \cap (i + 1)..(j - 1) = {}

DeclKey(p) == IF p.alias # None THEN p.alias[1] ELSE p.name

DeclaredBetween(src, i, j) ==
    LET ds == SelectSeq([k \in 1..Len(src) |-> k],
                        LAMBDA k : i < k /\ k < j /\ src[k].rule = "participant_decl")
    IN [k \in DOMAIN ds |-> DeclKey(src[ds[k]].arg)]

\* no box_start arrives while a box is open
BoxesWellFormed(src) ==
    \A i \in StmtIndices(src, "box_start") :
        \A k \in StmtIndices(src, "box_start") :
            i < k => \E j \in StmtIndices(src, "box_end") : i < j /\ j < k

\* C13: each closed box is recorded once, in source order, with exactly the participants
\* declared between its own markers; a participant declared outside any box belongs to
\* no box, no participant belongs to two boxes, and no box is lost or merged because
\* another box start arrives before its end.
C13_BoxesRecorded ==
    DeclParsed =>
        /\ Len(diagram.boxes) = MatchedBoxes(source, 1, 0, 0)
        /\ BoxesWellFormed(source) =>
              LET ends == InnermostPairs(source)
              IN diagram.boxes =
                    [k \in DOMAIN ends |->
                        ParticipantBox(source[StartOf(source, ends[k])].arg,
                                       DeclaredBetween(source, StartOf(source, ends[k]),
                                                       ends[k]))]
        /\ \A a, b \in DOMAIN diagram.boxes :
              a # b => Range(diagram.boxes[a].participants)
                          \cap Range(diagram.boxes[b].participants) = {}
        /\ \A k \in StmtIndices(source, "participant_decl") :
              (\A k2 \in StmtIndices(source, "participant_decl") :
                  DeclKey(source[k2].arg) = DeclKey(source[k].arg) =>
                      MatchedBoxes(SubSeq(source, 1, k2), 1, 0, 0)
                          = Cardinality(StmtIndices(SubSeq(source, 1, k2), "box_start")))
              => \A b \in DOMAIN diagram.boxes :
                    DeclKey(source[k].arg) \notin Range(diagram.boxes[b].participants)

-----------------------------------------------------------------------------
(* SequenceLayoutEngine::layout on call and activation flows *)

MaxFlow == 4

\* SequenceLayoutEngine::layout as one function of the diagram
layout(d) ==
    LET p == layout_participants(d, NewMetrics)
        boxes == layout_boxes(d, p.m, 1)
        m0 == [p.m EXCEPT !.current_y =
                  FirstParticipantY(p.m) + Px(ParticipantHeight) + Px(30)]
        body == layout_elements(d.elements, m0)
        m1 == finalize_activations(body.m, body.m.current_y)
        es == Emit(Emit(Emit(Emit(<<>>, p.out), body.out), add_lifelines(m1)),
                   add_activations(m1, 1))
        all == StretchBoxes(boxes, m1) \o Emit(es, add_participant_footers(m1))
    IN [elements |-> all,
        bounds |-> adjust_bounds_for_message_text(d, m1, calculate_bounds(all))]

FlowElements ==
    { Message("A", "B", Short, TRUE, FALSE),
      Message("B", "C", Short, TRUE, FALSE),
      Message("B", "A", Short, FALSE, TRUE),
      Return(None),
      Return(Some(Long)),
      Activation("B", "Activate"),
      Activation("B", "Destroy"),
      Fragment("alt", None,
               <<Section(None, <<Message("A", "B", Short, TRUE, FALSE)>>),
                 Section(None, <<Return(Some(Short))>>)>>) }

FlowDiagrams ==
    {[participants |-> <<>>, boxes |-> <<>>, elements |-> es] :
        es \in UNION {[1..k -> FlowElements] : k \in 0..MaxFlow}}

InitFlow ==
    /\ mode = "seq"
    /\ pc = "participants"
    /\ diagram \in FlowDiagrams
    /\ idx = 1
    /\ metrics = NewMetrics
    /\ elements = <<>>
    /\ box_elements = <<>>
    /\ result = EmptyResult
    /\ source = <<>>
    /\ fragment_stack = <<>>
    /\ current_section_elements = <<>>
    /\ current_box = None

FlowSpec == InitFlow /\ [][SeqNext]_vars

-----------------------------------------------------------------------------
(* Calls, returns and activations, read off the diagram alone *)

\* what a linear sequence of leaves asks for: the returns that find a pending call, the
\* calls still pending at the end, and how many activations each participant has open
RECURSIVE CallFlow(_, _, _, _)
CallFlow(leaves, stack, open, returns) ==
    IF leaves = <<>> THEN [returns |-> returns, stack |-> stack, open |-> open]
    ELSE LET e == Head(leaves)
             Dec(o, p) == IF o[p] > 0 THEN [o EXCEPT ![p] = @ - 1] ELSE o
         IN CASE e.kind = "Message" ->
                   LET o1 == IF e.activate THEN [open EXCEPT ![e.to] = @ + 1] ELSE open
                       o2 == IF e.deactivate THEN Dec(o1, e.from) ELSE o1
                   IN CallFlow(Tail(leaves),
                               IF e.activate THEN Append(stack, <<e.from, e.to>>) ELSE stack,
                               o2, returns)
              [] e.kind = "Activation" ->
                   CallFlow(Tail(leaves), stack,
                            IF e.activation_type = "Activate"
                            THEN [open EXCEPT ![e.participant] = @ + 1]
                            ELSE Dec(open, e.participant),
                            returns)
              [] e.kind = "Return" /\ stack # <<>> ->
                   LET call == stack[Len(stack)]
                   IN CallFlow(Tail(leaves), SubSeq(stack, 1, Len(stack) - 1),
                               Dec(open, call[2]),
                               Append(returns, [caller |-> call[1], callee |-> call[2],
                                                label |-> e.label,
                                                closes |-> open[call[2]] > 0]))
              [] OTHER -> CallFlow(Tail(leaves), stack, open, returns)

FlowOf(d) == CallFlow(LeavesOf(d.elements), <<>>, [n \in Names |-> 0], <<>>)

ReturnIds == {"return_" \o a \o "_" \o b : a, b \in Names}

ReturnEdges(es) ==
    SelectSeq(AllElements(es), LAMBDA e : e.element_type = "Edge" /\ e.id \in ReturnIds)

CenterOf(es, n) == LET h == ElementsWithId(es, "participant_" \o n)[1]
                   IN h.bounds.x + h.bounds.width \div 2

\* C14: each Return that finds a pending call is resolved against the most recent
\* activating message no earlier Return has consumed, fragments being read as one linear
\* sequence; it emits exactly one dashed edge from the callee to the caller carrying the
\* Return's label, deactivates the callee and removes the pair from the call stack.
C14_ReturnsResolveLifo ==
    SeqDone =>
        LET flow == FlowOf(diagram)
            rets == ReturnEdges(result.elements)
        IN /\ Len(rets) = Len(flow.returns)
           /\ metrics.call_stack = flow.stack
           /\ \A k \in DOMAIN rets :
                 LET r == flow.returns[k]
                     y == rets[k].points[1].y
                 IN /\ rets[k].id = "return_" \o r.callee \o "_" \o r.caller
                    /\ rets[k].dashed
                    /\ rets[k].label = r.label
                    /\ rets[k].points =
                          <<Point(CenterOf(result.elements, r.callee), y),
                            Point(CenterOf(result.elements, r.caller), y)>>
                    /\ r.closes =>
                          \E i \in DOMAIN metrics.completed_activations :
                              /\ metrics.completed_activations[i].info.participant = r.callee
                              /\ metrics.completed_activations[i].end_y = y

\* two nested calls, the inner one returning first
C14_Witness ==
    /\ SeqDone
    /\ LET rets == ReturnEdges(result.elements)
       IN /\ Len(rets) = 2
          /\ rets[1].id = "return_C_B"
          /\ rets[2].id = "return_B_A"
          /\ rets[1].points[1].y < rets[2].points[1].y

RemoveAt(es, i) == SubSeq(es, 1, i - 1) \o SubSeq(es, i + 1, Len(es))

\* the top-level Returns that find the call stack empty
IgnoredReturns(d) ==
    {i \in DOMAIN d.elements :
        /\ d.elements[i].kind = "Return"
        /\ FlowOf([d EXCEPT !.elements = SubSeq(d.elements, 1, i - 1)]).stack = <<>>}

\* C15: a Return processed while the call stack is empty is silently ignored: the
\* LayoutResult (elements and bounds) equals that of the same diagram without that
\* Return, also when the Return carries a label.
C15_IgnoredReturnLeavesNoTrace ==
    SeqDone =>
        \A i \in IgnoredReturns(diagram) :
            result = layout([diagram EXCEPT !.elements = RemoveAt(diagram.elements, i)])

-----------------------------------------------------------------------------
(* SequenceLayoutEngine::layout on autonumber directives *)

MaxAuto == 6

AutoElements ==
    { Message("A", "B", Short, FALSE, FALSE),
      Autonumber("Start", None, None),
      Autonumber("Start", Some(10), Some(5)),
      Autonumber("Stop", None, None),
      Autonumber("Resume", None, None) }

AutoDiagrams ==
    {[participants |-> <<>>, boxes |-> <<>>, elements |-> es] :
        es \in UNION {[1..k -> AutoElements] : k \in 0..MaxAuto}}

InitAuto ==
    /\ mode = "seq"
    /\ pc = "participants"
    /\ diagram \in AutoDiagrams
    /\ idx = 1
    /\ metrics = NewMetrics
    /\ elements = <<>>
    /\ box_elements = <<>>
    /\ result = EmptyResult
    /\ source = <<>>
    /\ fragment_stack = <<>>
    /\ current_section_elements = <<>>
    /\ current_box = None

AutoSpec == InitAuto /\ [][SeqNext]_vars

DirectivesBefore(leaves, j) == {i \in 1..(j - 1) : leaves[i].kind = "Autonumber"}

MaxOf(S) == CHOOSE x \in S : \A y \in S : y <= x

\* numbering is on at leaf j: a directive precedes it and the last one is not a stop
NumberingOn(leaves, j) ==
    /\ DirectivesBefore(leaves, j) # {}
    /\ leaves[MaxOf(DirectivesBefore(leaves, j))].cmd # "Stop"

\* the number the message at leaf j must carry, if any
ExpectedNumber(leaves, j) ==
    IF ~NumberingOn(leaves, j) THEN None
    ELSE LET starts == {i \in DirectivesBefore(leaves, j) : leaves[i].cmd = "Start"}
             base == IF starts = {} THEN 0 ELSE MaxOf(starts)
             start == IF base = 0 \/ leaves[base].start = None THEN 1 ELSE leaves[base].start[1]
             step == IF base = 0 \/ leaves[base].step = None THEN 1 ELSE leaves[base].step[1]
             issued == Cardinality({i \in (base + 1)..(j - 1) :
                                       leaves[i].kind = "Message" /\ NumberingOn(leaves, i)})
         IN Some(ToString(start + issued * step))

MessageIds == {"msg_" \o a \o "_" \o b : a, b \in Names}

MessageEdges(es) ==
    SelectSeq(AllElements(es), LAMBDA e : e.element_type = "Edge" /\ e.id \in MessageIds)

\* C16: a message carries `autonumber` iff numbering is enabled when it is processed; the
\* numbers issued are start, start+step, ... in source order; stop disables numbering
\* without changing the counter and resume without parameters continues with the number
\* following the last one issued.
C16_AutonumberSequence ==
    SeqDone =>
        LET leaves == LeavesOf(diagram.elements)
            at == SelectSeq([j \in 1..Len(leaves) |-> j], LAMBDA j : leaves[j].kind = "Message")
            out == MessageEdges(result.elements)
        IN /\ Len(out) = Len(at)
           /\ \A k \in DOMAIN out : out[k].autonumber = ExpectedNumber(leaves, at[k])

\* numbered, stopped, resumed: "1", no number, "2"
C16_Witness ==
    /\ SeqDone
    /\ LET out == MessageEdges(result.elements)
       IN /\ Len(out) = 3
          /\ out[1].autonumber = Some("1")
          /\ out[2].autonumber = None
          /\ out[3].autonumber = Some("2")
    /\ \E i \in DOMAIN diagram.elements :
          diagram.elements[i].kind = "Autonumber" /\ diagram.elements[i].cmd = "Resume"

-----------------------------------------------------------------------------
(* Activations: one rectangle per activation opened *)

\* the statements of a diagram that open an activation
Opening(e) ==
    \/ e.kind = "Activation" /\ e.activation_type = "Activate"
    \/ e.kind = "Message" /\ e.activate

OpenedCount(d) ==
    LET leaves == LeavesOf(d.elements)
    IN Cardinality({i \in DOMAIN leaves : Opening(leaves[i])})

ActivationElements(es) == SelectSeq(AllElements(es), IsActivation)

\* C17: every activation opened by an `activate` statement or an activating message is
\* closed exactly once and rendered as exactly one Activation element, so the layout has
\* as many Activation elements as activations were opened.
C17_OneRectanglePerActivation ==
    SeqDone =>
        /\ Len(metrics.completed_activations) = OpenedCount(diagram)
        /\ Len(ActivationElements(result.elements)) = OpenedCount(diagram)

\* the activation stacks (as the leaf indices that opened each entry) and the call
\* stack after the first k leaves of a diagram
RECURSIVE Track(_, _)
Track(leaves, k) ==
    IF k = 0 THEN [stacks |-> [n \in Names |-> <<>>], calls |-> <<>>]
    ELSE LET t == Track(leaves, k - 1)
             e == leaves[k]
             Pop(st, p) ==
                 IF st[p] = <<>> THEN st
                 ELSE [st EXCEPT ![p] = SubSeq(@, 1, Len(@) - 1)]
         IN CASE e.kind = "Message" ->
                   LET s1 == IF e.activate THEN [t.stacks EXCEPT ![e.to] = Append(@, k)]
                             ELSE t.stacks
                   IN [stacks |-> IF e.deactivate THEN Pop(s1, e.from) ELSE s1,
                       calls |-> IF e.activate THEN Append(t.calls, <<e.from, e.to>>)
                                 ELSE t.calls]
              [] e.kind = "Activation" ->
                   [t EXCEPT !.stacks = IF e.activation_type = "Activate"
                                        THEN [@ EXCEPT ![e.participant] = Append(@, k)]
                                        ELSE Pop(@, e.participant)]
              [] e.kind = "Return" /\ t.calls # <<>> ->
                   [stacks |-> Pop(t.stacks, t.calls[Len(t.calls)][2]),
                    calls |-> SubSeq(t.calls, 1, Len(t.calls) - 1)]
              [] OTHER -> t

\* the activation opened by the message at leaf i is the one the message at leaf j closes
ClosedByMessage(leaves, i, j) ==
    /\ i < j
    /\ leaves[i].kind = "Message" /\ leaves[i].activate
    /\ leaves[j].kind = "Message" /\ leaves[j].deactivate
    /\ leaves[j].from = leaves[i].to
    /\ LET before == Track(leaves, j - 1).stacks[leaves[j].from]
           st == IF leaves[j].activate /\ leaves[j].to = leaves[j].from
                 THEN Append(before, j) ELSE before
       IN st # <<>> /\ st[Len(st)] = i

\* Y at which the message at leaf j was drawn
DrawnAt(leaves, j) ==
    LET rank == Cardinality({i \in 1..j : leaves[i].kind = "Message"})
    IN MessageEdges(result.elements)[rank].points[1].y

ExpectedActivation(leaves, i, j) ==
    LET p == leaves[i].to
        y1 == DrawnAt(leaves, i)
        y2 == DrawnAt(leaves, j)
        level == Len(Track(leaves, i).stacks[p])
    IN Rect(GetParticipant(metrics, p).center_x - Px(ActivationWidth) \div 2
              + ((level - 1) * Px(ActivationWidth)) \div 2,
            y1, Px(ActivationWidth), Max(y2 - y1, Px(10)))

\* C18: an activation opened by an activating message drawn at y1 and closed by a later
\* deactivating message from the same participant drawn at y2 appears as exactly one
\* Activation element with top y1, height max(y2 - y1, 10), width activation_width and
\* left edge center_x(p) - activation_width/2 + (level - 1) * activation_width/2.
C18_ActivationGeometry ==
    SeqDone =>
        LET leaves == LeavesOf(diagram.elements)
            acts == ActivationElements(result.elements)
        IN \A i, j \in DOMAIN leaves :
              ClosedByMessage(leaves, i, j) =>
                  Cardinality({k \in DOMAIN acts :
                                  acts[k].bounds = ExpectedActivation(leaves, i, j)}) = 1

\* a second-level activation of B closed by a message from B
C18_Witness ==
    /\ SeqDone
    /\ LET leaves == LeavesOf(diagram.elements)
       IN \E i, j \in DOMAIN leaves :
             /\ ClosedByMessage(leaves, i, j)
             /\ Len(Track(leaves, i).stacks[leaves[i].to]) = 2
             /\ \E k \in DOMAIN result.elements :
                   /\ IsActivation(result.elements[k])
                   /\ result.elements[k].bounds = ExpectedActivation(leaves, i, j)

-----------------------------------------------------------------------------
(* StateLayoutEngine (plantuml-layout, state/engine.rs) *)

\* plantuml_ast::state: the fields the layout reads
Transition(from, to) == [from |-> from, to |-> to, label |-> None]
SimpleState(name) ==
    [name |-> name, state_type |-> "Simple", substates |-> <<>>,
     internal_transitions |-> <<>>]
CompositeOf(name, substates, transitions) ==
    [name |-> name, state_type |-> "Composite", substates |-> substates,
     internal_transitions |-> transitions]

\* StateLayoutConfig::default()
StateConfig ==
    [margin |-> Px(20), state_width |-> Px(120), state_min_height |-> Px(40),
     node_radius |-> Px(10), horizontal_spacing |-> Px(40), vertical_spacing |-> Px(50)]

INITIAL_STATE_ID == "[*]_initial"
FINAL_STATE_ID == "[*]_final"

\* name.replace(['[', ']', '*', '_'], ""), on the names of the inputs (which hold none
\* of the four characters) and on the two synthesized ids
Clean(name) ==
    CASE name = INITIAL_STATE_ID -> "initial"
      [] name = FINAL_STATE_ID -> "final"
      [] OTHER -> name

\* IndexSet::insert
Insert(set, v) == IF Contains(set, v) THEN set ELSE Append(set, v)

RECURSIVE InsertEach(_, _)
InsertEach(set, vs) ==
    IF vs = <<>> THEN set ELSE InsertEach(Insert(set, Head(vs)), Tail(vs))

\* the from and to of each transition, in order, without "[*]"
RECURSIVE Endpoints(_)
Endpoints(ts) ==
    IF ts = <<>> THEN <<>>
    ELSE (IF Head(ts).from # "[*]" THEN <<Head(ts).from>> ELSE <<>>)
         \o (IF Head(ts).to # "[*]" THEN <<Head(ts).to>> ELSE <<>>)
         \o Endpoints(Tail(ts))

NamesOf(states) == [i \in DOMAIN states |-> states[i].name]

\* "[*]" as a source becomes the initial node, as a target the final node
Resolve(ts) ==
    [i \in DOMAIN ts |->
        [from |-> IF ts[i].from = "[*]" THEN INITIAL_STATE_ID ELSE ts[i].from,
         to |-> IF ts[i].to = "[*]" THEN FINAL_STATE_ID ELSE ts[i].to,
         label |-> ts[i].label]]

\* IndexMap<String, usize> as the sequence of its entries in insertion order
HasLevel(levels, s) == \E i \in DOMAIN levels : levels[i].state = s
LevelOf(levels, s) == levels[CHOOSE i \in DOMAIN levels : levels[i].state = s].level
MaxLevel(levels) ==
    IF levels = <<>> THEN 0 ELSE MaxOf({levels[i].level : i \in DOMAIN levels})

RECURSIVE relax_cascading(_, _, _)
relax_cascading(levels, new_levels, ts) ==
    IF ts = <<>> THEN new_levels
    ELSE LET t == Head(ts)
         IN IF t.to # FINAL_STATE_ID /\ HasLevel(new_levels, t.from)
                  /\ ~HasLevel(new_levels, t.to)
            THEN relax_cascading(levels,
                       Append(new_levels,
                              [state |-> t.to, level |-> LevelOf(new_levels, t.from) + 1]),
                       Tail(ts))
            ELSE relax_cascading(levels, new_levels, Tail(ts))

\* one pass of the loop body of assign_levels over the transitions
RECURSIVE relax(_, _, _)
relax(levels, new_levels, ts) ==
    IF ts = <<>> THEN new_levels
    ELSE LET t == Head(ts)
         IN IF t.to # FINAL_STATE_ID /\ HasLevel(levels, t.from)
                  /\ ~HasLevel(new_levels, t.to)
            THEN relax(levels,
                       Append(new_levels,
                              [state |-> t.to, level |-> LevelOf(levels, t.from) + 1]),
                       Tail(ts))
            ELSE relax(levels, new_levels, Tail(ts))

\* the loop of assign_levels: the levels when it exits, and whether it exited by break
RECURSIVE assign_rounds(_, _, _)
assign_rounds(levels, ts, budget) ==
    IF budget = 0 THEN [levels |-> levels, fixed |-> FALSE]
    ELSE TheOne({IF Len(new_levels) = Len(levels) THEN [levels |-> levels, fixed |-> TRUE]
                 ELSE assign_rounds(new_levels, ts, budget - 1) :
                    new_levels \in {relax(levels, levels, ts)}})

finish_levels_final_at_max(all_states, looped, has_final) ==
    LET with_final ==
            IF ~has_final THEN looped
            ELSE Append(looped, [state |-> FINAL_STATE_ID, level |-> MaxLevel(looped)])
    IN TheOne({LET rest == SelectSeq(all_states, LAMBDA s : ~HasLevel(l, s))
               IN l \o [i \in DOMAIN rest |-> [state |-> rest[i], level |-> 0]] :
                  l \in {with_final}})

\* assign_levels, after the loop: the final node and the states left without a level
finish_levels(all_states, looped, has_final) ==
    LET with_final ==
            IF ~has_final THEN looped
            ELSE IF HasLevel(looped, FINAL_STATE_ID)
                 THEN [i \in DOMAIN looped |->
                          IF looped[i].state = FINAL_STATE_ID
                          THEN [state |-> FINAL_STATE_ID, level |-> MaxLevel(looped) + 1]
                          ELSE looped[i]]
                 ELSE Append(looped,
                             [state |-> FINAL_STATE_ID, level |-> MaxLevel(looped) + 1])
    IN TheOne({LET rest == SelectSeq(all_states, LAMBDA s : ~HasLevel(l, s))
               IN l \o [i \in DOMAIN rest |-> [state |-> rest[i], level |-> 0]] :
                  l \in {with_final}})

\* assign_levels, before the loop: the states that start at level 0
seed_levels(all_states, ts, has_initial) ==
    LET targets == {ts[i].to : i \in DOMAIN ts}
        roots == SelectSeq(all_states, LAMBDA s : s # FINAL_STATE_ID /\ s \notin targets)
        others == SelectSeq(all_states, LAMBDA s : s # FINAL_STATE_ID)
        l0 == IF has_initial THEN <<[state |-> INITIAL_STATE_ID, level |-> 0]>>
              ELSE [i \in DOMAIN roots |-> [state |-> roots[i], level |-> 0]]
    IN IF l0 = <<>> /\ others # <<>>
       THEN <<[state |-> Head(others), level |-> 0]>> ELSE l0

level_loop_short(all_states, ts, has_initial) ==
    TheOne({assign_rounds(l, ts, Len(all_states) - 1) :
               l \in {seed_levels(all_states, ts, has_initial)}})

\* assign_levels, up to the exit of the loop
level_loop(all_states, ts, has_initial) ==
    TheOne({assign_rounds(l, ts, Len(all_states) + 1) :
               l \in {seed_levels(all_states, ts, has_initial)}})

\* assign_levels
assign_levels(all_states, ts, has_initial, has_final) ==
    TheOne({finish_levels(all_states, looped.levels, has_final) :
               looped \in {level_loop(all_states, ts, has_initial)}})

\* level_states.get(&level): the states of one level, in the order of `levels`
LevelStates(levels, level) ==
    LET at == SelectSeq(levels, LAMBDA e : e.level = level)
    IN [i \in DOMAIN at |-> at[i].state]

\* IndexMap<String, Rect> as the sequence of its entries
HasPosition(positions, s) == \E i \in DOMAIN positions : positions[i].state = s
PositionOf(positions, s) ==
    positions[CHOOSE i \in DOMAIN positions : positions[i].state = s].bounds

StateElement(id, etype, name, bounds) ==
    [LayoutElement(id, etype, bounds) EXCEPT !.name = name]

\* bounds of a polyline, each dimension at least 1
PolylineBounds(points) ==
    LET xs == {points[i].x : i \in DOMAIN points}
        ys == {points[i].y : i \in DOMAIN points}
        min_x == CHOOSE v \in xs : \A w \in xs : v <= w
        min_y == CHOOSE v \in ys : \A w \in ys : v <= w
    IN Rect(min_x, min_y, Max(MaxOf(xs) - min_x, Px(1)), Max(MaxOf(ys) - min_y, Px(1)))

\* create_inner_state_element
create_inner_state_element(name, state_type, x, y, width, height) ==
    IF state_type \in {"Initial", "Final"}
    THEN LET r == Px(8)
             cx == x + width \div 2
             cy == y + r
         IN StateElement((IF state_type = "Initial" THEN "inner_initial_" ELSE "inner_final_")
                           \o Clean(name),
                         IF state_type = "Initial" THEN "InitialState" ELSE "FinalState",
                         "", Rect(cx - r, cy - r, r * 2, r * 2))
    ELSE StateElement("inner_state_" \o name, "State", name, Rect(x, y, width, height))

\* create_inner_transition_indexed
create_inner_transition_indexed(from, to, label, from_rect, to_rect, backward_index) ==
    LET from_center_x == from_rect.x + from_rect.width \div 2
        to_center_x == to_rect.x + to_rect.width \div 2
        from_center_y == from_rect.y + from_rect.height \div 2
        to_center_y == to_rect.y + to_rect.height \div 2
        dy == to_center_y - from_center_y
        dx == to_center_x - from_center_x
        is_backward == dy < 0 - Px(20)
        offset == Px(15) + backward_index * Px(20)
        right_x == Max(from_rect.x, to_rect.x) + Max(from_rect.width, to_rect.width) + offset
        from_y == from_rect.y + (from_rect.height * 3) \div 10
        to_y == to_rect.y + (to_rect.height * 7) \div 10
        points ==
            IF is_backward
            THEN <<Point(from_rect.x + from_rect.width, from_y), Point(right_x, from_y),
                   Point(right_x, to_y), Point(to_rect.x + to_rect.width, to_y)>>
            ELSE IF dy > Px(10)
            THEN <<Point(from_center_x, from_rect.y + from_rect.height),
                   Point(to_center_x, to_rect.y)>>
            ELSE IF dx > 0
            THEN <<Point(from_rect.x + from_rect.width, from_center_y),
                   Point(to_rect.x, to_center_y)>>
            ELSE <<Point(from_rect.x, from_center_y),
                   Point(to_rect.x + to_rect.width, to_center_y)>>
    IN EdgeElement("inner_trans_" \o Clean(from) \o "_" \o Clean(to),
                   PolylineBounds(points), points, label, FALSE, "Association", None)

\* layout_composite_content, the loop over the internal transitions
RECURSIVE inner_transitions(_, _, _)
inner_transitions(ts, positions, backward_transition_index) ==
    IF ts = <<>> THEN <<>>
    ELSE LET t == Head(ts)
         IN IF HasPosition(positions, t.from) /\ HasPosition(positions, t.to)
            THEN LET from_rect == PositionOf(positions, t.from)
                     to_rect == PositionOf(positions, t.to)
                     dy == (to_rect.y + to_rect.height \div 2)
                           - (from_rect.y + from_rect.height \div 2)
                     is_backward == dy < 0 - Px(20)
                 IN <<create_inner_transition_indexed(
                         t.from, t.to, t.label, from_rect, to_rect,
                         IF is_backward THEN backward_transition_index ELSE 0)>>
                    \o inner_transitions(Tail(ts), positions,
                                         IF is_backward THEN backward_transition_index + 1
                                         ELSE backward_transition_index)
            ELSE inner_transitions(Tail(ts), positions, backward_transition_index)

ShiftX(e, dx) ==
    [e EXCEPT !.bounds.x = @ + dx,
              !.points = [i \in DOMAIN @ |-> Point(@[i].x + dx, @[i].y)]]

\* layout_composite_content, lines 337-467: placement once the levels are known
composite_content(composite, internal_transitions, levels) ==
    LET max_level == MaxLevel(levels)
        inner_margin == Px(15)
        inner_state_width == Px(90)
        inner_state_height == Px(35)
        inner_spacing_v == Px(40)
        inner_spacing_h == Px(30)
        backward_count ==
            Cardinality({i \in DOMAIN internal_transitions :
                LevelOf(levels, internal_transitions[i].to)
                    < LevelOf(levels, internal_transitions[i].from)})
        backward_space == IF backward_count > 0 THEN Px(20) + backward_count * Px(25) ELSE 0
        WidthOf(n) == IF n = 0 THEN 0 ELSE n * inner_state_width + (n - 1) * inner_spacing_h
        level_width(level) == WidthOf(Len(LevelStates(levels, level)))
        max_level_width == MaxOf({0} \cup {level_width(l) : l \in 0..max_level})
        TypeOfInner(name) ==
            IF name = INITIAL_STATE_ID THEN "Initial"
            ELSE IF name = FINAL_STATE_ID THEN "Final"
            ELSE IF Contains(NamesOf(composite.substates), name)
                 THEN composite.substates[Position(NamesOf(composite.substates), name)].state_type
                 ELSE "Simple"
        on_levels ==
            Flatten([l \in 1..(max_level + 1) |->
                LET level == l - 1
                    states == LevelStates(levels, level)
                    start_x == inner_margin + (max_level_width - level_width(level)) \div 2
                IN [i \in DOMAIN states |->
                      [state |-> states[i],
                       elem |-> create_inner_state_element(
                                    states[i], TypeOfInner(states[i]),
                                    start_x + (i - 1) * (inner_state_width + inner_spacing_h),
                                    inner_margin + level * (inner_state_height + inner_spacing_v),
                                    inner_state_width, inner_state_height)]]])
        Finish(placed, mlw) ==
            LET state_positions ==
                    [i \in DOMAIN placed |->
                        [state |-> placed[i].state, bounds |-> placed[i].elem.bounds]]
                max_x == MaxOf({0} \cup {placed[i].elem.bounds.x + placed[i].elem.bounds.width :
                                           i \in DOMAIN placed}) + backward_space
                max_y == MaxOf({0} \cup {placed[i].elem.bounds.y + placed[i].elem.bounds.height :
                                           i \in DOMAIN placed})
                total_content_width == max_x + inner_margin
                elements_center_x == inner_margin + mlw \div 2
                target_center_x == total_content_width \div 2
                center_offset == target_center_x - elements_center_x
            IN TheOne({[elements |-> [i \in DOMAIN unshifted |->
                                         ShiftX(unshifted[i], center_offset)],
                        bounds |-> Rect(0, 0, total_content_width, max_y + inner_margin)] :
                          unshifted \in {[i \in DOMAIN placed |-> placed[i].elem]
                                         \o TheOne({inner_transitions(internal_transitions, sp, 0) :
                                                       sp \in {state_positions}})}})
    IN TheOne({Finish(placed, mlw) : placed \in {on_levels}, mlw \in {max_level_width}})

\* layout_composite_content
layout_composite_content(composite) ==
    LET cts == composite.internal_transitions
        has_initial == \E i \in DOMAIN cts : cts[i].from = "[*]"
        has_final == \E i \in DOMAIN cts : cts[i].to = "[*]"
        subs == SelectSeq(NamesOf(composite.substates), LAMBDA n : n # "[*]")
        inner_states ==
            LET s0 == IF has_initial THEN <<INITIAL_STATE_ID>> ELSE <<>>
                s1 == InsertEach(InsertEach(s0, subs), Endpoints(cts))
            IN IF has_final THEN Insert(s1, FINAL_STATE_ID) ELSE s1
    IN TheOne({TheOne({composite_content(composite, internal_transitions, levels) :
                          levels \in {assign_levels(all, internal_transitions,
                                                    has_initial, has_final)}}) :
                  all \in {inner_states}, internal_transitions \in {Resolve(cts)}})

\* create_composite_container
create_composite_container(composite, x, y, sub_layout) ==
    LET header_height == Px(30)
        padding == StateConfig.margin
        container_width == sub_layout.bounds.width + padding * 2
        container_height == sub_layout.bounds.height + padding * 2 + header_height
        offset_x == x + padding
        offset_y == y + header_height + padding
    IN <<StateElement("composite_" \o composite.name, "CompositeState", composite.name,
                      Rect(x, y, container_width, container_height))>>
       \o [i \in DOMAIN sub_layout.elements |->
             LET e == sub_layout.elements[i]
             IN [e EXCEPT
                   !.bounds.x = @ + offset_x,
                   !.bounds.y = @ + offset_y,
                   !.id = composite.name \o "_" \o @,
                   !.points = [k \in DOMAIN @ |-> Point(@[k].x + offset_x, @[k].y + offset_y)]]]

\* get_state_type_internal / get_state_type, for diagrams without aliases and history states
get_state_type_internal(d, name) ==
    IF name = INITIAL_STATE_ID THEN "Initial"
    ELSE IF name = FINAL_STATE_ID THEN "Final"
    ELSE IF Contains(NamesOf(d.states), name)
         THEN d.states[Position(NamesOf(d.states), name)].state_type
         ELSE "Simple"

\* create_state_element with create_initial_state, create_final_state and
\* create_simple_state: the element and its bounds
create_state_element(name, state_type, x, y) ==
    IF state_type \in {"Initial", "Final"}
    THEN LET r == StateConfig.node_radius
             cx == x + r
             cy == y + r
         IN StateElement((IF state_type = "Initial" THEN "initial_" ELSE "final_")
                           \o Clean(name),
                         IF state_type = "Initial" THEN "InitialState" ELSE "FinalState",
                         "", Rect(cx - r, cy - r, r * 2, r * 2))
    ELSE StateElement("state_" \o name, "State", name,
                      Rect(x, y, StateConfig.state_width, StateConfig.state_min_height))

\* calculate_connection_points
calculate_connection_points(from, to) ==
    LET from_center_x == from.x + from.width \div 2
        to_center_x == to.x + to.width \div 2
        dx == to_center_x - from_center_x
        dy == (to.y + to.height \div 2) - (from.y + from.height \div 2)
        is_to_small == to.width < Px(30) /\ to.height < Px(30)
        from_x == IF Abs(dx) < Px(10) THEN from_center_x
                  ELSE IF dx > 0 THEN from_center_x + from.width \div 5
                  ELSE from_center_x - from.width \div 5
        to_x == IF Abs(dx) < Px(10) THEN to_center_x
                ELSE IF dx > 0 THEN to_center_x - to.width \div 5
                ELSE to_center_x + to.width \div 5
    IN IF dy > 0
       THEN IF is_to_small
            THEN <<Point(from_x, from.y + from.height), Point(to_center_x, to.y)>>
            ELSE <<Point(from_x, from.y + from.height), Point(to_x, to.y)>>
       ELSE <<Point(from_center_x, from.y), Point(to_center_x, to.y + to.height)>>

\* create_transition_element
create_transition_element(from, to, label, from_rect, to_rect) ==
    LET from_center_x == from_rect.x + from_rect.width \div 2
        to_center_x == to_rect.x + to_rect.width \div 2
        from_center_y == from_rect.y + from_rect.height \div 2
        to_center_y == to_rect.y + to_rect.height \div 2
        dy == to_center_y - from_center_y
        is_backward_transition == dy < 0 - StateConfig.vertical_spacing \div 2
        is_to_small == to_rect.width < Px(30) /\ to_rect.height < Px(30)
        is_from_small == from_rect.width < Px(30) /\ from_rect.height < Px(30)
        right_x == Max(from_rect.x, to_rect.x) + Max(from_rect.width, to_rect.width) + Px(50)
        points ==
            IF is_backward_transition
            THEN <<Point(from_rect.x + from_rect.width, from_center_y),
                   Point(right_x, from_center_y),
                   Point(right_x, to_center_y),
                   IF is_to_small
                   THEN Point(to_center_x + to_rect.width \div 2, to_center_y)
                   ELSE Point(to_rect.x + to_rect.width, to_center_y)>>
            ELSE IF (is_from_small \/ is_to_small) /\ dy > 0
            THEN <<Point(from_center_x, from_rect.y + from_rect.height),
                   Point(to_center_x, to_rect.y)>>
            ELSE calculate_connection_points(from_rect, to_rect)
    IN EdgeElement("trans_" \o Clean(from) \o "_" \o Clean(to),
                   PolylineBounds(points), points, label, FALSE, "Association", None)

\* the locals of StateLayoutEngine::layout
IsCompositeName(w, name) == Contains(NamesOf(w.composite_states), name)
CompositeNamed(w, name) == w.composite_states[Position(NamesOf(w.composite_states), name)]
CompositeLayout(w, name) == w.composite_layouts[Position(NamesOf(w.composite_states), name)]

\* layout, lines 158-178: the height and the width a top-level state takes on its level
StateHeight(w, name) ==
    IF IsCompositeName(w, name)
    THEN CompositeLayout(w, name).bounds.height + StateConfig.margin * 2 + Px(30)
    ELSE IF name \in {INITIAL_STATE_ID, FINAL_STATE_ID} THEN StateConfig.node_radius * 2
    ELSE StateConfig.state_min_height

StateWidth(w, name) ==
    IF IsCompositeName(w, name)
    THEN CompositeLayout(w, name).bounds.width + StateConfig.margin * 2
    ELSE IF name \in {INITIAL_STATE_ID, FINAL_STATE_ID} THEN StateConfig.node_radius * 2
    ELSE StateConfig.state_width

\* layout, lines 207-242: the states of one level from left to right
RECURSIVE place_level(_, _, _, _, _)
place_level(d, w, states, x, y) ==
    IF states = <<>> THEN <<>>
    ELSE LET state_name == Head(states)
         IN IF IsCompositeName(w, state_name)
            THEN LET sub_layout == CompositeLayout(w, state_name)
                     container_rect ==
                         Rect(x, y, sub_layout.bounds.width + StateConfig.margin * 2,
                              sub_layout.bounds.height + StateConfig.margin * 2 + Px(30))
                 IN <<[state |-> state_name, bounds |-> container_rect,
                       elems |-> create_composite_container(
                                     CompositeNamed(w, state_name), x, y, sub_layout)]>>
                    \o place_level(d, w, Tail(states),
                                   x + container_rect.width + StateConfig.horizontal_spacing, y)
            ELSE LET elem == create_state_element(
                                 state_name, get_state_type_internal(d, state_name), x, y)
                 IN <<[state |-> state_name, bounds |-> elem.bounds, elems |-> <<elem>>]>>
                    \o place_level(d, w, Tail(states),
                                   x + elem.bounds.width + StateConfig.horizontal_spacing, y)

\* layout, lines 148-244: every level from top to bottom
place_states(d, w) ==
    LET max_level == MaxLevel(w.levels)
        states_of(level) == LevelStates(w.levels, level)
        present(level) == states_of(level) # <<>>
        level_height(level) ==
            MaxOf({0} \cup {StateHeight(w, n) : n \in Range(states_of(level))})
        level_width(level) ==
            SumSeq([i \in DOMAIN states_of(level) |-> StateWidth(w, states_of(level)[i])])
            + (Len(states_of(level)) - 1) * StateConfig.horizontal_spacing
        max_width == MaxOf({0} \cup {level_width(l) : l \in {k \in 0..max_level : present(k)}})
        diagram_center_x == StateConfig.margin + max_width \div 2
        level_y(level) ==
            StateConfig.margin
            + SumSeq([l \in 1..level |->
                        (IF present(l - 1) THEN level_height(l - 1)
                         ELSE StateConfig.state_min_height)
                        + StateConfig.vertical_spacing])
    IN Flatten([l \in 1..(max_level + 1) |->
          IF present(l - 1)
          THEN place_level(d, w, states_of(l - 1),
                           diagram_center_x - level_width(l - 1) \div 2, level_y(l - 1))
          ELSE <<>>])

\* layout, lines 247-254
RECURSIVE top_transitions(_, _)
top_transitions(ts, positions) ==
    IF ts = <<>> THEN <<>>
    ELSE (IF HasPosition(positions, Head(ts).from) /\ HasPosition(positions, Head(ts).to)
          THEN <<create_transition_element(Head(ts).from, Head(ts).to, Head(ts).label,
                                           PositionOf(positions, Head(ts).from),
                                           PositionOf(positions, Head(ts).to))>>
          ELSE <<>>)
         \o top_transitions(Tail(ts), positions)

-----------------------------------------------------------------------------
(* StateLayoutEngine::layout as a state machine *)

MaxTrans == 2
MaxNest == 2

\* the composite at nesting depth k is named M<k>; its body speaks of BodyName(k)
CompositeName(k) == "M" \o ToString(k)
BodyName(k) == <<"Q", "R", "S", "T">>[k]

SeqsUpTo(S, n) == UNION {[1..k -> S] : k \in 0..n}

BodyTransitions(k) ==
    { Transition("[*]", BodyName(k)),
      Transition(BodyName(k), CompositeName(k + 1)),
      Transition(CompositeName(k + 1), BodyName(k)) }

\* the composite states of nesting depth k, each with a body of depth up to MaxNest
RECURSIVE CompositesAt(_)
CompositesAt(k) ==
    LET nested == IF k < MaxNest THEN {<<c>> : c \in CompositesAt(k + 1)} ELSE {}
        substates == {<<>>, <<SimpleState(BodyName(k))>>} \cup nested
    IN {CompositeOf(CompositeName(k), subs, ts) :
           subs \in substates, ts \in SeqsUpTo(BodyTransitions(k), MaxTrans)}

TopTransitions ==
    { Transition("[*]", "M1"), Transition("M1", "P"), Transition("P", "[*]"),
      Transition("P", BodyName(2)), Transition(BodyName(1), "P") }

StateDiagrams ==
    {[states |-> ss, transitions |-> ts] :
        ss \in {<<>>, <<SimpleState("P")>>} \cup {<<c>> : c \in CompositesAt(1)},
        ts \in SeqsUpTo(TopTransitions, MaxTrans)}

InitState ==
    /\ mode = "state"
    /\ pc = "classify"
    /\ diagram \in StateDiagrams
    /\ idx = 1
    /\ metrics = <<>>
    /\ elements = <<>>
    /\ box_elements = <<>>
    /\ result = EmptyResult
    /\ source = <<>>
    /\ fragment_stack = <<>>
    /\ current_section_elements = <<>>
    /\ current_box = None

\* layout, lines 46-126: composite states, internal states, top-level states and transitions
StateClassify ==
    /\ mode = "state" /\ pc = "classify"
    /\ \E composite_states \in
            {SelectSeq(diagram.states, LAMBDA s : s.state_type = "Composite")} :
       \E internal_states \in
            {InsertEach(<<>>,
                 Flatten([i \in DOMAIN composite_states |->
                     Endpoints(composite_states[i].internal_transitions)
                     \o NamesOf(composite_states[i].substates)]))} :
       LET has_initial == \E i \in DOMAIN diagram.transitions : diagram.transitions[i].from = "[*]"
           has_final == \E i \in DOMAIN diagram.transitions : diagram.transitions[i].to = "[*]"
           declared == SelectSeq(NamesOf(diagram.states),
                                 LAMBDA n : n # "[*]" /\ ~Contains(internal_states, n))
           used == SelectSeq(Endpoints(diagram.transitions),
                             LAMBDA n : ~Contains(internal_states, n))
           t0 == IF has_initial THEN <<INITIAL_STATE_ID>> ELSE <<>>
           t1 == InsertEach(InsertEach(t0, declared), used)
       IN \E top_level_states \in {IF has_final THEN Insert(t1, FINAL_STATE_ID) ELSE t1} :
             metrics' =
                 [composite_states |-> composite_states,
                  internal_states |-> internal_states,
                  has_initial |-> has_initial,
                  has_final |-> has_final,
                  top_level_states |-> top_level_states,
                  top_level_transitions |->
                      Resolve(SelectSeq(diagram.transitions,
                          LAMBDA t : /\ t.from = "[*]" \/ Contains(top_level_states, t.from)
                                     /\ t.to = "[*]" \/ Contains(top_level_states, t.to))),
                  levels |-> <<>>,
                  level_loop |-> [levels |-> <<>>, fixed |-> FALSE],
                  composite_layouts |-> <<>>,
                  state_positions |-> <<>>]
    /\ pc' = "levels"
    /\ UNCHANGED <<mode, diagram, idx, elements, box_elements, result, parsevars>>

\* layout, lines 128-138
StateAssignLevels ==
    /\ mode = "state" /\ pc = "levels"
    /\ \E looped \in {level_loop(metrics.top_level_states, metrics.top_level_transitions,
                                  metrics.has_initial)} :
          metrics' = [metrics EXCEPT
                         !.levels = finish_levels(metrics.top_level_states, looped.levels,
                                                  metrics.has_final),
                         !.level_loop = looped]
    /\ pc' = "composites"
    /\ UNCHANGED <<mode, diagram, idx, elements, box_elements, result, parsevars>>

\* layout, lines 140-146
StateLayoutComposites ==
    /\ mode = "state" /\ pc = "composites"
    /\ metrics' = [metrics EXCEPT !.composite_layouts =
                      [i \in DOMAIN metrics.composite_states |->
                          layout_composite_content(metrics.composite_states[i])]]
    /\ pc' = "place"
    /\ UNCHANGED <<mode, diagram, idx, elements, box_elements, result, parsevars>>

\* layout, lines 148-244
StatePlace ==
    /\ mode = "state" /\ pc = "place"
    /\ \E placed \in {place_states(diagram, metrics)} :
          /\ elements' = elements \o Flatten([i \in DOMAIN placed |-> placed[i].elems])
          /\ metrics' = [metrics EXCEPT !.state_positions =
                            [i \in DOMAIN placed |->
                                [state |-> placed[i].state, bounds |-> placed[i].bounds]]]
    /\ pc' = "transitions"
    /\ UNCHANGED <<mode, diagram, idx, box_elements, result, parsevars>>

\* layout, lines 246-254
StateTransitions ==
    /\ mode = "state" /\ pc = "transitions"
    /\ elements' = elements
                   \o top_transitions(metrics.top_level_transitions, metrics.state_positions)
    /\ pc' = "bounds"
    /\ UNCHANGED <<mode, diagram, idx, metrics, box_elements, result, parsevars>>

\* layout, lines 256-267
StateBounds ==
    /\ mode = "state" /\ pc = "bounds"
    /\ \E b \in {calculate_bounds(elements)} :
          result' = [elements |-> elements,
                     bounds |-> [b EXCEPT !.width = @ + StateConfig.margin * 2,
                                          !.height = @ + StateConfig.margin * 2]]
    /\ pc' = "done"
    /\ UNCHANGED <<mode, diagram, idx, metrics, elements, box_elements, parsevars>>

StateNext ==
    \/ StateClassify
    \/ StateAssignLevels
    \/ StateLayoutComposites
    \/ StatePlace
    \/ StateTransitions
    \/ StateBounds

StateSpec == InitState /\ [][StateNext]_vars

StateDone == mode = "state" /\ pc = "done"

-----------------------------------------------------------------------------
(* Composite states: what is drawn inside, what at the top level *)

\* the composite states of a list of states, at any nesting depth
RECURSIVE CompositesIn(_)
CompositesIn(states) ==
    UNION {IF states[i].state_type = "Composite"
           THEN {states[i]} \cup CompositesIn(states[i].substates)
           ELSE {} : i \in DOMAIN states}

\* the states a composite's body names: its substates and the ends of its transitions
BodyNamesOf(c) == Range(NamesOf(c.substates)) \cup Range(Endpoints(c.internal_transitions))

StateUniverse ==
    {"P"} \cup {BodyName(k) : k \in 1..MaxNest} \cup {CompositeName(k) : k \in 1..(MaxNest + 1)}

\* the ids beginning `<C>_inner_` that mention state x
InnerIdsMentioning(C, x) ==
    {C \o "_inner_state_" \o x}
    \cup {C \o "_inner_trans_" \o x \o "_" \o b : b \in StateUniverse \cup {"initial", "final"}}
    \cup {C \o "_inner_trans_" \o a \o "_" \o x : a \in StateUniverse \cup {"initial", "final"}}

ResultIds == {result.elements[i].id : i \in DOMAIN result.elements}

\* no element inside composite C mentions a state that C's body does not name
InnerOnlyBody ==
    \A c \in CompositesIn(diagram.states) :
        \A x \in StateUniverse \ BodyNamesOf(c) :
            ResultIds \cap InnerIdsMentioning(c.name, x) = {}

\* no state of composite c's body is drawn as a top-level element
BodyNotAtTop(c) ==
    \A x \in BodyNamesOf(c) : ResultIds \cap {"state_" \o x, "composite_" \o x} = {}

\* C19: no element with an id beginning `<C>_inner_` mentions a state that composite C's
\* internal transitions and substates do not name, and no state named in the body of
\* some composite is emitted as a top-level element.
C19_InnerAndTopDisjoint ==
    StateDone =>
        /\ InnerOnlyBody
        /\ \A c \in CompositesIn(diagram.states) : BodyNotAtTop(c)

\* C20: a composite state nested in the body of a drawn composite is emitted as a
\* CompositeState container, with the states of its own body drawn as elements, at
\* every nesting depth.
C20_NestedCompositesDrawn ==
    StateDone =>
        \A c \in Range(diagram.states) :
            (c.state_type = "Composite" /\ ("composite_" \o c.name) \in ResultIds) =>
                \A n \in CompositesIn(c.substates) :
                    /\ \E i \in DOMAIN result.elements :
                          /\ result.elements[i].element_type = "CompositeState"
                          /\ result.elements[i].name = n.name
                    /\ \A x \in BodyNamesOf(n) :
                          \E i \in DOMAIN result.elements :
                              /\ result.elements[i].element_type \in {"State", "CompositeState"}
                              /\ result.elements[i].name = x

-----------------------------------------------------------------------------
(* Element rectangles *)

PositiveRect(r) == r.width > 0 /\ r.height > 0

\* C21: every element of a layout has bounds of positive width and positive height,
\* dividers and delays of a diagram without participants included.
C21_ElementBoundsPositive ==
    SeqDone =>
        \A e \in Range(AllElements(result.elements)) : PositiveRect(e.bounds)

-----------------------------------------------------------------------------
(* SequenceLayoutEngine::layout on messages whose labels differ in width *)

MaxWiden == 2

Mid == Label(12, 0)
WidenLabels == {NoLabel, Short, Mid, Long}

WidenElements ==
    {Message(pr[1], pr[2], l, FALSE, FALSE) :
        pr \in {<<"A", "B">>, <<"C", "A">>, <<"A", "A">>, <<"B", "C">>}, l \in WidenLabels}
    \cup {Fragment("alt", None, <<Section(None, <<Message("A", "B", l, FALSE, FALSE)>>)>>) :
             l \in WidenLabels}

WidenDiagrams ==
    {[participants |-> <<>>, boxes |-> <<>>, elements |-> es] :
        es \in UNION {[1..k -> WidenElements] : k \in 0..MaxWiden}}

InitWiden ==
    /\ mode = "seq"
    /\ pc = "participants"
    /\ diagram \in WidenDiagrams
    /\ idx = 1
    /\ metrics = NewMetrics
    /\ elements = <<>>
    /\ box_elements = <<>>
    /\ result = EmptyResult
    /\ source = <<>>
    /\ fragment_stack = <<>>
    /\ current_section_elements = <<>>
    /\ current_box = None

WidenSpec == InitWiden /\ [][SeqNext]_vars

\* the elements with the label of the j-th leaf (depth-first, in source order) replaced
RECURSIVE WithLabel(_, _, _)
RECURSIVE WithLabelInSections(_, _, _)
WithLabel(es, j, l) ==
    IF es = <<>> THEN es
    ELSE LET h == Head(es)
             n == Len(LeavesOf(<<h>>))
         IN IF j > n THEN <<h>> \o WithLabel(Tail(es), j - n, l)
            ELSE IF h.kind = "Fragment"
                 THEN <<[h EXCEPT !.sections = WithLabelInSections(@, j, l)]>> \o Tail(es)
                 ELSE <<[h EXCEPT !.label = l]>> \o Tail(es)

WithLabelInSections(secs, j, l) ==
    IF secs = <<>> THEN secs
    ELSE LET n == Len(LeavesOf(Head(secs).elements))
         IN IF j > n THEN <<Head(secs)>> \o WithLabelInSections(Tail(secs), j - n, l)
            ELSE <<[Head(secs) EXCEPT !.elements = WithLabel(@, j, l)]>> \o Tail(secs)

\* the diagrams that differ from d in one message label, replaced by a wider one
Widened(d) ==
    LET leaves == LeavesOf(d.elements)
    IN {[d EXCEPT !.elements = WithLabel(d.elements, c[1], c[2])] :
           c \in {c \in (DOMAIN leaves) \X WidenLabels :
                     /\ leaves[c[1]].kind = "Message"
                     /\ message_label_width(c[2]) > message_label_width(leaves[c[1]].label)}}

-----------------------------------------------------------------------------
\* Participant placement order

\* the from and to of every message leaf, depth first in source order
MessageEnds(es) ==
    Flatten([i \in DOMAIN LeavesOf(es) |->
                IF LeavesOf(es)[i].kind = "Message"
                THEN <<LeavesOf(es)[i].from, LeavesOf(es)[i].to>> ELSE <<>>])

\* a sequence with every repeated occurrence after the first removed
FirstOccurrences(s) ==
    LET keep == {i \in DOMAIN s : \A j \in 1..(i - 1) : s[j] # s[i]}
        nth(k) == CHOOSE i \in keep : Cardinality({j \in keep : j < i}) = k - 1
    IN [k \in 1..Cardinality(keep) |-> s[nth(k)]]

\* declared participants first, then the ends of messages, by first appearance
FirstAppearanceOrder(d) ==
    FirstOccurrences([i \in DOMAIN d.participants |-> ParticipantKey(d.participants[i])]
                     \o MessageEnds(d.elements))

HeadersOf(es) == SelectSeq(es, IsHeader)

\* C23: the participant headers appear in first-appearance order (declared participants
\* in declaration order without duplicates, then the ends of messages depth first in
\* source order) and their X coordinates strictly increase along that order.
C23_FirstAppearanceOrder ==
    SeqDone =>
        LET hs == HeadersOf(result.elements)
            order == FirstAppearanceOrder(diagram)
        IN /\ Len(hs) = Len(order)
           /\ \A i \in DOMAIN hs : hs[i].id = "participant_" \o order[i]
           /\ \A i \in 1..(Len(hs) - 1) : hs[i].bounds.x < hs[i + 1].bounds.x

\* a declared participant is followed by an undeclared one that first appears in a
\* message nested in a fragment
C23_Witness ==
    /\ SeqDone
    /\ diagram.participants # <<>>
    /\ \E i \in DOMAIN diagram.elements :
          /\ diagram.elements[i].kind = "Fragment"
          /\ \E n \in MessageParticipants(<<diagram.elements[i]>>) :
                /\ ~IsDeclared(diagram.participants, n)
                /\ n \notin MessageParticipants(SubSeq(diagram.elements, 1, i - 1))
    /\ Len(HeadersOf(result.elements)) >= 3

-----------------------------------------------------------------------------
(* Level assignment on flat diagrams *)

MaxEdges == 3

LevelTransitions ==
    { Transition("[*]", "A"), Transition("[*]", "B"),
      Transition("A", "B"), Transition("B", "A"), Transition("B", "C"),
      Transition("C", "A"), Transition("A", "[*]"), Transition("C", "[*]") }

LevelDiagrams ==
    {[states |-> <<>>, transitions |-> ts] : ts \in SeqsUpTo(LevelTransitions, MaxEdges)}

InitLevels ==
    /\ mode = "state"
    /\ pc = "classify"
    /\ diagram \in LevelDiagrams
    /\ idx = 1
    /\ metrics = <<>>
    /\ elements = <<>>
    /\ box_elements = <<>>
    /\ result = EmptyResult
    /\ source = <<>>
    /\ fragment_stack = <<>>
    /\ current_section_elements = <<>>
    /\ current_box = None

LevelSpec == InitLevels /\ [][StateNext]_vars

LevelsAssigned == mode = "state" /\ pc \notin {"classify", "levels"}

\* the states that start at level 0
LevelZero(all_states, ts, has_initial) ==
    LET plain == {all_states[i] : i \in DOMAIN all_states} \ {FINAL_STATE_ID}
        roots == {s \in plain : \A i \in DOMAIN ts : ts[i].to # s}
    IN IF has_initial THEN {INITIAL_STATE_ID}
       ELSE IF roots # {} THEN roots
       ELSE IF plain = {} THEN {}
       ELSE {all_states[CHOOSE i \in DOMAIN all_states :
                           /\ all_states[i] # FINAL_STATE_ID
                           /\ \A j \in 1..(i - 1) : all_states[j] = FINAL_STATE_ID]}

\* the states within k transitions of the seeds, never stepping into the final node
RECURSIVE Within(_, _, _)
Within(seeds, ts, k) ==
    IF k = 0 THEN seeds
    ELSE TheOne({w \cup {ts[i].to : i \in {j \in DOMAIN ts :
                                             ts[j].from \in w /\ ts[j].to # FINAL_STATE_ID}} :
                    w \in {Within(seeds, ts, k - 1)}})

\* length of the shortest path from a seed to s
Distance(seeds, ts, s) ==
    CHOOSE k \in 0..Len(ts) :
        s \in Within(seeds, ts, k) /\ (k = 0 \/ s \notin Within(seeds, ts, k - 1))

LevelMap(levels) == {<<levels[i].state, levels[i].level>> : i \in DOMAIN levels}

\* C24: the level-0 states are the initial node, or else the non-final states without an
\* incoming transition, or else the first state; every state reachable from them without
\* entering the final node has the length of the shortest such path as its level; a
\* transition from a reachable state to a non-final one climbs at most one level; and
\* the levels do not depend on the order of the transition list.
C24_BreadthFirstLevels ==
    LevelsAssigned =>
        LET ts == metrics.top_level_transitions
            all == metrics.top_level_states
            seeds == LevelZero(all, ts, metrics.has_initial)
            reach == Within(seeds, ts, Len(ts))
            lv(s) == LevelOf(metrics.levels, s)
        IN /\ \A s \in reach : lv(s) = Distance(seeds, ts, s)
           /\ \A i \in DOMAIN ts :
                 ts[i].to # FINAL_STATE_ID /\ ts[i].from \in reach
                     => lv(ts[i].to) <= lv(ts[i].from) + 1
           /\ \A p \in Permutations(DOMAIN ts) :
                 LevelMap(assign_levels(all, [i \in DOMAIN ts |-> ts[p[i]]],
                                        metrics.has_initial, metrics.has_final))
                     = LevelMap(metrics.levels)

\* a state two transitions away from the initial node whose shorter path comes later in
\* the transition list than a longer one
C24_Witness ==
    /\ LevelsAssigned
    /\ diagram.transitions = <<Transition("[*]", "A"), Transition("A", "B"),
                               Transition("[*]", "B")>>
    /\ LevelOf(metrics.levels, "B") = 1

\* C25: the loop of assign_levels exits by its break, and at that point no transition
\* leads from a state that has a level to a non-final state that has none.
C25_LoopReachesFixedPoint ==
    LevelsAssigned =>
        /\ metrics.level_loop.fixed
        /\ \A i \in DOMAIN metrics.top_level_transitions :
              LET t == metrics.top_level_transitions[i]
              IN HasLevel(metrics.level_loop.levels, t.from) /\ t.to # FINAL_STATE_ID
                     => HasLevel(metrics.level_loop.levels, t.to)

\* a chain that needs one round per state
C25_Witness ==
    /\ LevelsAssigned
    /\ metrics.level_loop.fixed
    /\ Len(metrics.top_level_states) = 4
    /\ MaxLevel(metrics.level_loop.levels) = 3

\* C26: every state has a level; the final node, when there is one, is one level above
\* the highest of the others; a state not reachable from a level-0 state has level 0.
C26_LevelsTotal ==
    LevelsAssigned =>
        LET ts == metrics.top_level_transitions
            all == metrics.top_level_states
            plain == {all[i] : i \in DOMAIN all} \ {FINAL_STATE_ID}
            reach == Within(LevelZero(all, ts, metrics.has_initial), ts, Len(ts))
            lv(s) == LevelOf(metrics.levels, s)
        IN /\ \A i \in DOMAIN all : HasLevel(metrics.levels, all[i])
           /\ metrics.has_final =>
                 /\ HasLevel(metrics.levels, FINAL_STATE_ID)
                 /\ lv(FINAL_STATE_ID) = MaxOf({lv(s) : s \in plain} \cup {0}) + 1
                 /\ \A s \in plain : lv(s) < lv(FINAL_STATE_ID)
           /\ \A s \in plain \ reach : lv(s) = 0

\* a final node above a reachable state, beside a state the initial node does not reach
C26_Witness ==
    /\ LevelsAssigned
    /\ metrics.has_initial /\ metrics.has_final
    /\ LevelOf(metrics.levels, FINAL_STATE_ID) = 2
    /\ \E i \in DOMAIN metrics.top_level_states :
          LET s == metrics.top_level_states[i]
          IN /\ s \notin {INITIAL_STATE_ID, FINAL_STATE_ID}
             /\ s \notin Within({INITIAL_STATE_ID}, metrics.top_level_transitions,
                                Len(metrics.top_level_transitions))
             /\ LevelOf(metrics.levels, s) = 0

-----------------------------------------------------------------------------
(* Backward transitions *)

MaxBack == 4

BackTransitions ==
    { Transition("A", "B"), Transition("B", "C"), Transition("C", "A"),
      Transition("B", "A"), Transition("C", "B") }

\* a composite whose body has two backward transitions, S -> Q and S -> R
BackComposite ==
    CompositeOf("M1", <<>>,
                <<Transition("Q", "R"), Transition("R", "S"),
                  Transition("S", "Q"), Transition("S", "R")>>)

BackDiagrams ==
    {[states |-> ss, transitions |-> ts] :
        ss \in {<<>>, <<BackComposite>>}, ts \in SeqsUpTo(BackTransitions, MaxBack)}

InitBack ==
    /\ mode = "state"
    /\ pc = "classify"
    /\ diagram \in BackDiagrams
    /\ idx = 1
    /\ metrics = <<>>
    /\ elements = <<>>
    /\ box_elements = <<>>
    /\ result = EmptyResult
    /\ source = <<>>
    /\ fragment_stack = <<>>
    /\ current_section_elements = <<>>
    /\ current_box = None

BackSpec == InitBack /\ [][StateNext]_vars

TopTransitionIds ==
    {"trans_" \o a \o "_" \o b : a, b \in {"A", "B", "C", "M1", "initial", "final"}}

\* the four-point edges of one scope of a laid out diagram
IsDetour(e) == e.element_type = "Edge" /\ Len(e.points) = 4
TopDetours(es) == SelectSeq(es, LAMBDA e : IsDetour(e) /\ e.id \in TopTransitionIds)
InnerDetours(es) == SelectSeq(es, LAMBDA e : IsDetour(e) /\ e.id \notin TopTransitionIds)

\* an orthogonal detour: out to the right, along one vertical line, and back
Orthogonal(e) ==
    /\ e.points[1].y = e.points[2].y
    /\ e.points[2].x = e.points[3].x
    /\ e.points[3].y = e.points[4].y

VerticalsApart(es) ==
    \A i, j \in DOMAIN es : i # j => es[i].points[2].x # es[j].points[2].x

\* C27: within the top level, and within the body of a composite, the backward
\* transitions are orthogonal four-point paths whose vertical segments are at
\* pairwise different X coordinates.
C27_BackwardArrowsApart ==
    StateDone =>
        /\ \A e \in Range(TopDetours(result.elements)) \cup Range(InnerDetours(result.elements)) :
              Orthogonal(e)
        /\ VerticalsApart(TopDetours(result.elements))
        /\ VerticalsApart(InnerDetours(result.elements))

-----------------------------------------------------------------------------
(* Participant spacing *)

MaxSpace == 2

SpaceLabels == {NoLabel, Long}

SpaceElements ==
    {Message(pr[1], pr[2], l, FALSE, FALSE) :
        pr \in {<<"A", "B">>, <<"A", "C">>, <<"C", "B">>, <<"A_B", "C">>}, l \in SpaceLabels}
    \cup {Fragment("alt", None, <<Section(None, <<Message("A", "C", Long, FALSE, FALSE)>>)>>),
          Fragment("alt", None,
              <<Section(None,
                  <<Fragment("opt", None,
                        <<Section(None, <<Message("C", "B", Long, FALSE, FALSE)>>)>>)>>)>>)}

SpaceParticipants ==
    {<<>>,
     <<Participant("A_B", None, "Participant"), Participant("C", None, "Participant"),
       Participant("A", None, "Participant"), Participant("B_C", None, "Participant")>>}

SpaceDiagrams ==
    {[participants |-> ps, boxes |-> <<>>, elements |-> es] :
        ps \in SpaceParticipants, es \in UNION {[1..k -> SpaceElements] : k \in 0..MaxSpace}}

InitSpace ==
    /\ mode = "seq"
    /\ pc = "participants"
    /\ diagram \in SpaceDiagrams
    /\ idx = 1
    /\ metrics = NewMetrics
    /\ elements = <<>>
    /\ box_elements = <<>>
    /\ result = EmptyResult
    /\ source = <<>>
    /\ fragment_stack = <<>>
    /\ current_section_elements = <<>>
    /\ current_box = None

SpaceSpec == InitSpace /\ [][SeqNext]_vars

\* centre of the header drawn for a participant
HeaderCentre(es, name) ==
    LET h == es[CHOOSE i \in DOMAIN es : es[i].id = "participant_" \o name]
    IN h.bounds.x + h.bounds.width \div 2

\* the gap between the headers at positions i and i + 1
HeaderGap(hs, i) == hs[i + 1].bounds.x - (hs[i].bounds.x + hs[i].bounds.width)

\* C28: once the participants are placed, the lifeline centres of the two ends of every
\* message between distinct participants, at any fragment depth, are at least the width
\* of its label plus 20 apart; and a gap is wider than the minimum only where a message
\* has its leftmost end (the segment a deficit is added to).
C28_SpacingFitsLabels ==
    SeqDone =>
        LET leaves == LeavesOf(diagram.elements)
            hs == HeadersOf(result.elements)
            order == FirstAppearanceOrder(diagram)
        IN /\ \A i \in DOMAIN leaves :
                 leaves[i].kind = "Message" /\ leaves[i].from # leaves[i].to
                     => Abs(HeaderCentre(result.elements, leaves[i].from)
                            - HeaderCentre(result.elements, leaves[i].to))
                        >= message_label_width(leaves[i].label) + Px(20)
           /\ \A k \in 1..(Len(hs) - 1) :
                 HeaderGap(hs, k) > Px(MinSpacing)
                     => \E i \in DOMAIN leaves :
                           /\ leaves[i].kind = "Message"
                           /\ Min(Position(order, leaves[i].from),
                                  Position(order, leaves[i].to)) = k

-----------------------------------------------------------------------------
(* Returns and numbering *)

MaxNumbered == 4

NumberedElements ==
    { Message("A", "B", Short, TRUE, FALSE),
      Return(Some(Short)),
      Autonumber("Start", None, None),
      Autonumber("Start", Some(10), Some(5)),
      Autonumber("Stop", None, None),
      Fragment("alt", None,
               <<Section(None, <<Message("A", "B", Short, TRUE, FALSE)>>),
                 Section(None, <<Return(None), Message("B", "A", Short, FALSE, FALSE)>>)>>) }

NumberedDiagrams ==
    {[participants |-> <<>>, boxes |-> <<>>, elements |-> es] :
        es \in UNION {[1..k -> NumberedElements] : k \in 0..MaxNumbered}}

InitNumbered ==
    /\ mode = "seq"
    /\ pc = "participants"
    /\ diagram \in NumberedDiagrams
    /\ idx = 1
    /\ metrics = NewMetrics
    /\ elements = <<>>
    /\ box_elements = <<>>
    /\ result = EmptyResult
    /\ source = <<>>
    /\ fragment_stack = <<>>
    /\ current_section_elements = <<>>
    /\ current_box = None

NumberedSpec == InitNumbered /\ [][SeqNext]_vars

\* the element the next iteration of step 3 processes
Processing(kind) ==
    /\ mode = "seq" /\ pc = "elements" /\ idx <= Len(diagram.elements)
    /\ diagram.elements[idx].kind = kind

\* the elements the step just taken has emitted, those inside fragments included
Emitted == AllElements(SubSeq(elements', Len(elements) + 1, Len(elements')))

MessageCount(leaves) == Cardinality({i \in DOMAIN leaves : leaves[i].kind = "Message"})

\* C29: processing a Return leaves the numbering state as it was and its edge carries no
\* number; processing a message, or a fragment with n messages, while numbering is
\* enabled advances the current number by one step, or n steps, and changes nothing
\* else of the numbering state; no return edge ever carries a number.
C29_ReturnsNotNumbered ==
    [][ /\ Processing("Return") =>
            /\ metrics'.autonumber = metrics.autonumber
            /\ \A i \in DOMAIN Emitted : Emitted[i].autonumber = None
        /\ Processing("Message") \/ Processing("Fragment") =>
            LET n == MessageCount(LeavesOf(<<diagram.elements[idx]>>))
                a == metrics.autonumber
            IN /\ metrics'.autonumber =
                      IF a.enabled THEN [a EXCEPT !.current = a.current + n * a.step] ELSE a
               /\ \A i \in DOMAIN Emitted :
                     Emitted[i].id \in ReturnIds => Emitted[i].autonumber = None
               /\ Cardinality({i \in DOMAIN Emitted :
                                  Emitted[i].element_type = "Edge"
                                  /\ Emitted[i].autonumber # None})
                      = IF a.enabled THEN n ELSE 0
      ]_vars

\* a return has been drawn while numbering was enabled, after a numbered message
C29_Witness ==
    /\ mode = "seq" /\ pc = "elements"
    /\ metrics.autonumber.enabled
    /\ idx > 1 /\ idx <= Len(diagram.elements) + 1
    /\ diagram.elements[idx - 1].kind = "Return"
    /\ \E i, j \in DOMAIN elements :
          /\ i < j
          /\ elements[i].id \in MessageIds /\ elements[i].autonumber # None
          /\ elements[j].id \in ReturnIds /\ elements[j].autonumber = None

-----------------------------------------------------------------------------
(* The vertical cursor *)

\* the Y of the message and return edges of a list of elements, children included
EdgeYs(es) ==
    LET edges == SelectSeq(AllElements(es), LAMBDA e : e.id \in MessageIds \cup ReturnIds)
    IN [i \in DOMAIN edges |-> edges[i].points[1].y]

StrictlyIncreasing(ys) == \A i \in 1..(Len(ys) - 1) : ys[i] < ys[i + 1]

\* every element of a later section of a fragment starts below the end of every element
\* of an earlier one
SectionsStacked(f) ==
    \A i, j \in DOMAIN f.sections :
        i < j =>
            \A c \in Range(AllElements(f.sections[i].children)),
               d \in Range(AllElements(f.sections[j].children)) :
                  c.bounds.y + c.bounds.height <= d.bounds.y

\* what a top-level element emits sits at the cursor it was processed at
DrawnAtCursor(e, out, y) ==
    CASE e.kind = "Message" -> out[1].points[1].y = y + e.label.breaks * Px(LineHeight)
      [] e.kind = "Return" -> out = <<>> \/ out[1].points[1].y = y
      [] e.kind \in {"Fragment", "Note", "Divider", "Delay"} -> out[1].bounds.y = y
      [] OTHER -> out = <<>>

MaxCursor == 2

CursorElements ==
    { Message("A", "B", Short, FALSE, FALSE),
      Message("B", "B", Multi, FALSE, FALSE),
      Message("A", "B", NoLabel, TRUE, FALSE),
      Return(Some(Long)),
      NoteOf("Over", <<"B">>),
      Divider,
      Space(10),
      Fragment("alt", Some("c1"),
               <<Section(Some("c1"), <<Message("A", "B", Short, FALSE, FALSE)>>),
                 Section(Some("c2"), <<Message("B", "A", Long, FALSE, FALSE)>>)>>),
      Fragment("alt", Some("c1"),
               <<Section(None, <<Message("A", "B", Short, TRUE, FALSE),
                                 Fragment("loop", None,
                                          <<Section(None, <<Message("B", "C", Short, FALSE, FALSE)>>)>>)>>),
                 Section(None, <<Return(None)>>)>>) }

CursorDiagrams ==
    {[participants |-> <<>>, boxes |-> <<>>, elements |-> es] :
        es \in UNION {[1..k -> CursorElements] : k \in 0..MaxCursor}}

InitCursor ==
    /\ mode = "seq"
    /\ pc = "participants"
    /\ diagram \in CursorDiagrams
    /\ idx = 1
    /\ metrics = NewMetrics
    /\ elements = <<>>
    /\ box_elements = <<>>
    /\ result = EmptyResult
    /\ source = <<>>
    /\ fragment_stack = <<>>
    /\ current_section_elements = <<>>
    /\ current_box = None

CursorSpec == InitCursor /\ [][SeqNext]_vars

\* C30: the cursor current_y never decreases; what a step emits is drawn at the cursor
\* value the step found (after the room a multi-line label takes); the Y of message and
\* return edges strictly increases in source order, fragments walked depth first; and
\* the elements of a later fragment section lie below those of an earlier one.
C30_CursorMonotonic ==
    [][ /\ mode = "seq" => metrics'.current_y >= metrics.current_y
        /\ mode = "seq" /\ pc = "elements" /\ idx <= Len(diagram.elements) =>
              DrawnAtCursor(diagram.elements[idx],
                            SubSeq(elements', Len(elements) + 1, Len(elements')),
                            metrics.current_y)
        /\ StrictlyIncreasing(EdgeYs(elements'))
        /\ \A f \in Range(AllElements(elements')) :
              f.element_type = "Fragment" => SectionsStacked(f)
      ]_vars

\* a fragment with two sections that hold three edges between them, one in a nested loop
C30_Witness ==
    /\ SeqDone
    /\ Len(EdgeYs(result.elements)) >= 3
    /\ \E f \in Range(result.elements) :
          /\ f.element_type = "Fragment"
          /\ Len(f.sections) = 2
          /\ f.sections[1].children # <<>> /\ f.sections[2].children # <<>>
          /\ \E c \in Range(f.sections[1].children) : c.element_type = "Fragment"

====
